---- MODULE Spec2Model ----
(***************************************************************************)
(* Model of the energyunits quantity engine: the unit registry, the        *)
(* substance registry, the inflation and exchange-rate registries and the  *)
(* Quantity value object (to, +, -, *, /, the comparisons), with the       *)
(* methods that extend the registries at run time.                         *)
(*                                                                         *)
(* Unit symbols are strings, handled as the code handles them (substring   *)
(* tests, split on "/", concatenation).  Numeric values are exact          *)
(* rationals [num, den]; a Quantity value is a scalar or an array of them. *)
(* An absent optional field (None) is the empty tuple and a present one is *)
(* a one-element tuple.                                                    *)
(***************************************************************************)
EXTENDS Integers, Sequences, FiniteSets, TLC

VARIABLES a, op, res, warnings, returned, catalog

vars == <<a, op, res, warnings, returned, catalog>>

None == <<>>
Some(x) == <<x>>

(***************************************************************************)
(* Bounds of the model.                                                    *)
(***************************************************************************)
MaxValue == 3

(***************************************************************************)
(* Exact rational arithmetic standing for the float arithmetic.            *)
(***************************************************************************)
Abs(n) == IF n < 0 THEN 0 - n ELSE n

RECURSIVE GCD(_, _)
GCD(m, n) == IF n = 0 THEN m ELSE GCD(n, m % n)

\* a fraction already in lowest terms
Frac(n, d) == [num |-> n, den |-> d]

Rat(n, d) ==
    LET g == GCD(Abs(n), Abs(d))
        s == IF d < 0 THEN 0 - 1 ELSE 1
    IN  [num |-> s * (n \div g), den |-> s * (d \div g)]

RMul(x, y) ==
    LET g1 == GCD(Abs(x.num), y.den)
        g2 == GCD(Abs(y.num), x.den)
    IN  Rat((x.num \div g1) * (y.num \div g2), (x.den \div g2) * (y.den \div g1))

RInv(x) == Rat(x.den, x.num)

RDiv(x, y) == RMul(x, RInv(y))

ROne == Frac(1, 1)
RZero == Frac(0, 1)

(***************************************************************************)
(* numpy values: np.asarray of a scalar or of a list.                      *)
(***************************************************************************)
Scalar(r) == [shape |-> "scalar", data |-> <<r>>]
Array(s) == [shape |-> "array", data |-> s]

VScale(v, r) == [shape |-> v.shape, data |-> [i \in DOMAIN v.data |-> RMul(v.data[i], r)]]

VUnscale(v, r) == [shape |-> v.shape, data |-> [i \in DOMAIN v.data |-> RDiv(v.data[i], r)]]

VElem(v, i) == IF v.shape = "scalar" THEN v.data[1] ELSE v.data[i]

VShape(v, w) == IF v.shape = "array" THEN v ELSE w

VMul(v, w) ==
    LET s == VShape(v, w)
    IN  [shape |-> s.shape, data |-> [i \in DOMAIN s.data |-> RMul(VElem(v, i), VElem(w, i))]]

VDiv(v, w) ==
    LET s == VShape(v, w)
    IN  [shape |-> s.shape, data |-> [i \in DOMAIN s.data |-> RDiv(VElem(v, i), VElem(w, i))]]

RAdd(x, y) == Rat(x.num * y.den + y.num * x.den, x.den * y.den)

RSub(x, y) == Rat(x.num * y.den - y.num * x.den, x.den * y.den)

VAdd(v, w) ==
    LET s == VShape(v, w)
    IN  [shape |-> s.shape, data |-> [i \in DOMAIN s.data |-> RAdd(VElem(v, i), VElem(w, i))]]

VSub(v, w) ==
    LET s == VShape(v, w)
    IN  [shape |-> s.shape, data |-> [i \in DOMAIN s.data |-> RSub(VElem(v, i), VElem(w, i))]]

VAllZero(v) == \A i \in DOMAIN v.data : v.data[i] = RZero

(***************************************************************************)
(* Python string operations on unit strings.                               *)
(***************************************************************************)
StrIn(sub, s) ==
    \E i \in 1..(Len(s) - Len(sub) + 1) : SubSeq(s, i, i + Len(sub) - 1) = sub

HasSlash(s) == StrIn("/", s)

SlashPos(s) == CHOOSE i \in 1..Len(s) :
    /\ SubSeq(s, i, i) = "/"
    /\ \A j \in 1..(i - 1) : SubSeq(s, j, j) # "/"

SplitNum(s) == SubSeq(s, 1, SlashPos(s) - 1)

SplitDen(s) == SubSeq(s, SlashPos(s) + 1, Len(s))

UpperChar(c) ==
    CASE c = "a" -> "A" [] c = "b" -> "B" [] c = "c" -> "C" [] c = "d" -> "D"
      [] c = "e" -> "E" [] c = "f" -> "F" [] c = "g" -> "G" [] c = "h" -> "H"
      [] c = "i" -> "I" [] c = "j" -> "J" [] c = "k" -> "K" [] c = "l" -> "L"
      [] c = "m" -> "M" [] c = "n" -> "N" [] c = "o" -> "O" [] c = "p" -> "P"
      [] c = "q" -> "Q" [] c = "r" -> "R" [] c = "s" -> "S" [] c = "t" -> "T"
      [] c = "u" -> "U" [] c = "v" -> "V" [] c = "w" -> "W" [] c = "x" -> "X"
      [] c = "y" -> "Y" [] c = "z" -> "Z" [] OTHER -> c

RECURSIVE Upper(_)
Upper(s) == IF Len(s) = 0 THEN "" ELSE UpperChar(Head(s)) \o Upper(Tail(s))

(***************************************************************************)
(* UnitRegistry: the tables built by __init__.  The model keeps the units  *)
(* listed here out of the registry's full table.                           *)
(***************************************************************************)
EnergyUnits == {"kWh", "MWh", "GWh", "GJ"}
PowerUnits == {"kW", "MW", "GW"}
MassUnits == {"kg", "t"}
VolumeUnits == {"m3", "L"}
TimeUnits == {"min", "h", "a"}
CurrencyUnits == {"USD", "EUR", "GBP"}

_dimensions ==
    [u \in EnergyUnits |-> "ENERGY"] @@ [u \in PowerUnits |-> "POWER"] @@
    [u \in MassUnits |-> "MASS"] @@ [u \in VolumeUnits |-> "VOLUME"] @@
    [u \in TimeUnits |-> "TIME"] @@ [u \in CurrencyUnits |-> "CURRENCY"]

_conversion_factors ==
    "kWh" :> Frac(1, 1000) @@ "MWh" :> Frac(1, 1) @@ "GWh" :> Frac(1000, 1) @@
    "GJ" :> Frac(5, 18) @@
    "kW" :> Frac(1, 1000) @@ "MW" :> Frac(1, 1) @@ "GW" :> Frac(1000, 1) @@
    "kg" :> Frac(1, 1000) @@ "t" :> Frac(1, 1) @@
    "m3" :> Frac(1, 1) @@ "L" :> Frac(1, 1000) @@
    "min" :> Frac(1, 60) @@ "h" :> Frac(1, 1) @@ "a" :> Frac(8760, 1) @@
    "USD" :> Frac(1, 1) @@ "EUR" :> Frac(27, 25) @@ "GBP" :> Frac(127, 100)

_dimension_relationships ==
    {<<"ENERGY", "POWER">>, <<"POWER", "ENERGY">>, <<"MASS", "VOLUME">>,
     <<"VOLUME", "MASS">>, <<"ENERGY", "MASS">>, <<"MASS", "ENERGY">>,
     <<"ENERGY", "VOLUME">>, <<"VOLUME", "ENERGY">>}

_standard_unit_pairs ==
    <<"ENERGY", "POWER">> :> "MW" @@ <<"POWER", "ENERGY">> :> "MWh" @@
    <<"MASS", "VOLUME">> :> "m3" @@ <<"VOLUME", "MASS">> :> "kg" @@
    <<"ENERGY", "MASS">> :> "kg" @@ <<"MASS", "ENERGY">> :> "MWh" @@
    <<"ENERGY", "VOLUME">> :> "m3" @@ <<"VOLUME", "ENERGY">> :> "MWh"

_base_units ==
    "ENERGY" :> "MWh" @@ "POWER" :> "MW" @@ "MASS" :> "t" @@ "VOLUME" :> "m3" @@
    "TIME" :> "h" @@ "CURRENCY" :> "USD"

_corresponding_units ==
    "kW" :> "kWh" @@ "MW" :> "MWh" @@ "GW" :> "GWh" @@
    "kWh" :> "kW" @@ "MWh" :> "MW" @@ "GWh" :> "GW"

\* A raised ValueError, as a dimension, as a unit and as a factor.
ValueError == "ValueError"
RErr == [num |-> 0, den |-> 0]
IsRErr(x) == x.den = 0

RECURSIVE get_dimension(_)
get_dimension(unit) ==
    IF unit = "" THEN "DIMENSIONLESS"
    ELSE IF HasSlash(unit) THEN
        LET num_dim == get_dimension(SplitNum(unit))
            den_dim == get_dimension(SplitDen(unit))
        IN  IF num_dim = ValueError \/ den_dim = ValueError THEN ValueError
            ELSE IF num_dim = "ENERGY" /\ den_dim = "TIME" THEN "POWER"
            ELSE num_dim \o "_PER_" \o den_dim
    ELSE IF unit \in DOMAIN _dimensions THEN _dimensions[unit]
    ELSE ValueError

are_dimensions_compatible(from_dim, to_dim) ==
    \/ from_dim = to_dim
    \/ <<from_dim, to_dim>> \in _dimension_relationships

RECURSIVE get_conversion_factor(_, _)
RECURSIVE _convert_compound_to_simple(_, _, _)

get_conversion_factor(from_unit, to_unit) ==
    LET from_dim == get_dimension(from_unit)
        to_dim == get_dimension(to_unit)
    IN  IF from_dim = ValueError \/ to_dim = ValueError THEN RErr
        ELSE IF from_dim # to_dim THEN RErr
        ELSE IF HasSlash(from_unit) /\ HasSlash(to_unit) THEN
            LET num_factor == get_conversion_factor(SplitNum(from_unit), SplitNum(to_unit))
                den_factor == get_conversion_factor(SplitDen(from_unit), SplitDen(to_unit))
            IN  IF IsRErr(num_factor) \/ IsRErr(den_factor) THEN RErr
                ELSE RDiv(num_factor, den_factor)
        ELSE IF HasSlash(from_unit) \/ HasSlash(to_unit) THEN
            _convert_compound_to_simple(from_unit, to_unit, from_dim)
        ELSE IF from_unit \notin DOMAIN _conversion_factors
                \/ to_unit \notin DOMAIN _conversion_factors THEN RErr
        ELSE RDiv(_conversion_factors[from_unit], _conversion_factors[to_unit])

_convert_compound_to_simple(from_unit, to_unit, dimension) ==
    LET is_from_compound == HasSlash(from_unit)
        compound_unit == IF is_from_compound THEN from_unit ELSE to_unit
        simple_unit == IF is_from_compound THEN to_unit ELSE from_unit
    IN  IF dimension = "POWER" THEN
            LET energy_factor == get_conversion_factor(SplitNum(compound_unit), "MWh")
                time_factor == get_conversion_factor(SplitDen(compound_unit), "h")
                mw_to_simple_factor == get_conversion_factor("MW", simple_unit)
            IN  IF IsRErr(energy_factor) \/ IsRErr(time_factor) \/ IsRErr(mw_to_simple_factor)
                THEN RErr
                ELSE LET compound_to_simple_factor ==
                             RMul(RDiv(energy_factor, time_factor), mw_to_simple_factor)
                     IN  IF is_from_compound THEN compound_to_simple_factor
                         ELSE RInv(compound_to_simple_factor)
        ELSE RErr

get_corresponding_unit(unit, target_dimension) ==
    IF /\ unit \in DOMAIN _corresponding_units
       /\ get_dimension(_corresponding_units[unit]) = target_dimension
    THEN _corresponding_units[unit]
    ELSE LET from_dim == get_dimension(unit)
         IN  IF from_dim = ValueError THEN ValueError
             ELSE IF <<from_dim, target_dimension>> \in DOMAIN _standard_unit_pairs
             THEN _standard_unit_pairs[<<from_dim, target_dimension>>]
             ELSE ValueError

(***************************************************************************)
(* The dimension-algebra rules.  The rule tables and their two lookups are *)
(* not part of the registry source; they follow the specification's        *)
(* section 4.1: POWER x TIME -> ENERGY sourced from the POWER operand (the *)
(* rule names a pair of dimensions, in either order), ENERGY / TIME ->     *)
(* POWER, and no rule otherwise.  A missing rule is the empty tuple.       *)
(***************************************************************************)
get_multiplication_result(dim1, dim2) ==
    IF {dim1, dim2} = {"POWER", "TIME"} /\ dim1 # dim2
    THEN <<"ENERGY", "POWER">>
    ELSE None

get_division_result(dim1, dim2) ==
    IF dim1 = "ENERGY" /\ dim2 = "TIME" THEN Some("POWER") ELSE None

(***************************************************************************)
(* SubstanceRegistry: heating values in MJ/kg, density in kg/m3 and mass   *)
(* fractions, for the substances the model keeps, as fractions in lowest   *)
(* terms (27.8 is 139/5, 0.273 is 273/1000).  A missing property (None) is *)
(* RErr.                                                                   *)
(***************************************************************************)
_substances ==
    "coal" :> [hhv |-> Frac(293, 10), lhv |-> Frac(139, 5), density |-> Frac(833, 1),
               carbon_content |-> Frac(3, 4), hydrogen_content |-> Frac(1, 20),
               ash_content |-> Frac(1, 10)] @@
    "lignite" :> [hhv |-> Frac(15, 1), lhv |-> Frac(14, 1), density |-> Frac(700, 1),
               carbon_content |-> Frac(13, 20), hydrogen_content |-> Frac(1, 25),
               ash_content |-> Frac(3, 20)] @@
    "natural_gas" :> [hhv |-> Frac(55, 1), lhv |-> Frac(99, 2), density |-> Frac(3, 4),
               carbon_content |-> Frac(3, 4), hydrogen_content |-> Frac(1, 4),
               ash_content |-> Frac(0, 1)] @@
    "wind" :> [hhv |-> RErr, lhv |-> RErr, density |-> RErr,
               carbon_content |-> Frac(0, 1), hydrogen_content |-> Frac(0, 1), ash_content |-> Frac(0, 1)] @@
    "solar" :> [hhv |-> RErr, lhv |-> RErr, density |-> RErr,
               carbon_content |-> Frac(0, 1), hydrogen_content |-> Frac(0, 1), ash_content |-> Frac(0, 1)] @@
    "hydro" :> [hhv |-> RErr, lhv |-> RErr, density |-> RErr,
               carbon_content |-> Frac(0, 1), hydrogen_content |-> Frac(0, 1), ash_content |-> Frac(0, 1)] @@
    "nuclear" :> [hhv |-> RErr, lhv |-> RErr, density |-> RErr,
               carbon_content |-> Frac(0, 1), hydrogen_content |-> Frac(0, 1), ash_content |-> Frac(0, 1)] @@
    "CO2" :> [hhv |-> RErr, lhv |-> RErr, density |-> Frac(99, 50),
               carbon_content |-> Frac(273, 1000), hydrogen_content |-> Frac(0, 1),
               ash_content |-> Frac(0, 1)] @@
    "H2O" :> [hhv |-> RErr, lhv |-> RErr, density |-> Frac(1000, 1),
               carbon_content |-> Frac(0, 1), hydrogen_content |-> Frac(111, 1000),
               ash_content |-> Frac(0, 1)] @@
    "ash" :> [hhv |-> RErr, lhv |-> RErr, density |-> Frac(1500, 1),
               carbon_content |-> Frac(0, 1), hydrogen_content |-> Frac(0, 1), ash_content |-> Frac(1, 1)]

hhv(substance_id) ==
    IF substance_id \notin DOMAIN _substances THEN RErr ELSE _substances[substance_id].hhv

lhv(substance_id) ==
    IF substance_id \notin DOMAIN _substances THEN RErr ELSE _substances[substance_id].lhv

density(substance_id) ==
    IF substance_id \notin DOMAIN _substances THEN RErr ELSE _substances[substance_id].density

lhv_hhv_ratio(substance_id) ==
    IF IsRErr(hhv(substance_id)) \/ IsRErr(lhv(substance_id)) THEN RErr
    ELSE RDiv(lhv(substance_id), hhv(substance_id))

(***************************************************************************)
(* InflationRegistry: annual rates in hundredths of a percent.  The model  *)
(* keeps the window 2020..2022 of each default series; a year outside the  *)
(* window stands for a year outside the series.                            *)
(***************************************************************************)
_inflation_data ==
    "USD" :> (2020 :> 123 @@ 2021 :> 470 @@ 2022 :> 800) @@
    "EUR" :> (2020 :> 30 @@ 2021 :> 260 @@ 2022 :> 840)

InflationCurrencies == <<"USD", "EUR">>

\* 1.0 + currency_data[year] / 100.0
AnnualFactor(currency_data, year) == Rat(10000 + currency_data[year], 10000)

\* The loop over range(lo, hi + 1), multiplying (or dividing) factor by each
\* year's (1 + rate); it raises at the first year without a rate.
RECURSIVE InflationLoop(_, _, _, _, _)
InflationLoop(currency_data, year, hi, factor, deflate) ==
    IF year > hi THEN factor
    ELSE IF year \notin DOMAIN currency_data THEN RErr
    ELSE InflationLoop(currency_data, year + 1, hi,
                       IF deflate THEN RDiv(factor, AnnualFactor(currency_data, year))
                       ELSE RMul(factor, AnnualFactor(currency_data, year)),
                       deflate)

\* range(from_year, to_year) in place of range(from_year + 1, to_year + 1)
get_cumulative_inflation_factor_shifted(currency, from_year, to_year) ==
    IF currency \notin DOMAIN _inflation_data THEN RErr
    ELSE LET currency_data == _inflation_data[currency]
         IN  IF from_year = to_year THEN ROne
             ELSE IF from_year > to_year
             THEN InflationLoop(currency_data, to_year, from_year - 1, ROne, TRUE)
             ELSE InflationLoop(currency_data, from_year, to_year - 1, ROne, FALSE)

\* the backward branch left out: no deflation when to_year < from_year
get_cumulative_inflation_factor_forward_only(currency, from_year, to_year) ==
    IF currency \notin DOMAIN _inflation_data THEN RErr
    ELSE LET currency_data == _inflation_data[currency]
         IN  IF from_year >= to_year THEN ROne
             ELSE InflationLoop(currency_data, from_year + 1, to_year, ROne, FALSE)

get_cumulative_inflation_factor(currency, from_year, to_year) ==
    IF currency \notin DOMAIN _inflation_data THEN RErr
    ELSE LET currency_data == _inflation_data[currency]
         IN  IF from_year = to_year THEN ROne
             ELSE IF from_year > to_year
             THEN InflationLoop(currency_data, to_year + 1, from_year, ROne, TRUE)
             ELSE InflationLoop(currency_data, from_year + 1, to_year, ROne, FALSE)

\* The first currency of the list whose code is a substring of s, else None.
RECURSIVE FirstCurrencyIn(_, _)
FirstCurrencyIn(currencies, s) ==
    IF currencies = <<>> THEN None
    ELSE IF StrIn(Head(currencies), s) THEN Some(Head(currencies))
    ELSE FirstCurrencyIn(Tail(currencies), s)

\* the codes looked for in the unit string as written, not upper-cased
DetectCurrency_case_sensitive(currencies, unit) ==
    LET found == FirstCurrencyIn(currencies, unit)
    IN  IF found # None THEN found
        ELSE IF StrIn("$", unit) \/ StrIn("DOLLAR", Upper(unit)) THEN Some("USD")
        ELSE None

DetectCurrency(currencies, unit) ==
    LET unit_upper == Upper(unit)
        found == FirstCurrencyIn(currencies, unit_upper)
    IN  IF found # None THEN found
        ELSE IF StrIn("$", unit) \/ StrIn("DOLLAR", unit_upper) THEN Some("USD")
        ELSE None

inflation_detect_currency_from_unit(unit) == DetectCurrency(InflationCurrencies, unit)

(***************************************************************************)
(* ExchangeRateRegistry: 1 unit of currency = rate USD, by year.  The      *)
(* series come from a data file that is not part of the source; the model  *)
(* gives EUR and GBP a rate for each year of the window.                   *)
(***************************************************************************)
_exchange_rate_data ==
    "EUR" :> (2020 :> Frac(11, 10) @@ 2021 :> Frac(6, 5) @@ 2022 :> Frac(21, 20)) @@
    "GBP" :> (2020 :> Frac(13, 10) @@ 2021 :> Frac(7, 5) @@ 2022 :> Frac(5, 4)) @@
    "USD" :> <<>>

get_supported_currencies == <<"USD", "EUR", "GBP", "USD">>

SetMax(S) == CHOOSE m \in S : \A n \in S : n <= m

\* the year argument ignored: always the most recent year's rate
get_exchange_rate_most_recent(currency, year) ==
    IF currency = "USD" THEN ROne
    ELSE IF currency \notin DOMAIN _exchange_rate_data THEN RErr
    ELSE _exchange_rate_data[currency][SetMax(DOMAIN _exchange_rate_data[currency])]

\* year is None or Some(y)
get_exchange_rate(currency, year) ==
    IF currency = "USD" THEN ROne
    ELSE IF currency \notin DOMAIN _exchange_rate_data THEN RErr
    ELSE LET currency_data == _exchange_rate_data[currency]
             y == IF year = None THEN SetMax(DOMAIN currency_data) ELSE year[1]
         IN  IF y \notin DOMAIN currency_data THEN RErr ELSE currency_data[y]

convert_currency(value, from_currency, to_currency, year) ==
    IF from_currency = to_currency THEN value
    ELSE LET from_rate == get_exchange_rate(from_currency, year)
             to_rate == get_exchange_rate(to_currency, year)
         IN  IF IsRErr(from_rate) \/ IsRErr(to_rate) THEN RErr
             ELSE RDiv(RMul(value, from_rate), to_rate)

exchange_get_conversion_factor(from_currency, to_currency, year) ==
    convert_currency(ROne, from_currency, to_currency, year)

exchange_detect_currency_from_unit(unit) == DetectCurrency(get_supported_currencies, unit)

(***************************************************************************)
(* The cross-dimension converters of UnitRegistry, for one element of the  *)
(* value.  substance and basis are None or Some(_); RErr is a raise.       *)
(***************************************************************************)
\* MJ/kg to MWh/t, the constant 0.2778 of the code
MjKgToMwhT == Frac(1389, 5000)

\* kwargs.get("basis", "LHV"), then the heating value of that basis
HeatingValueFor(substance, basis) ==
    LET b == IF basis = None THEN "LHV" ELSE basis[1]
    IN  IF Upper(b) = "HHV" THEN hhv(substance[1]) ELSE lhv(substance[1])

\* x * f, raising if f is a raise
Times(x, f) == IF IsRErr(x) \/ IsRErr(f) THEN RErr ELSE RMul(x, f)
Over(x, f) == IF IsRErr(x) \/ IsRErr(f) THEN RErr ELSE RDiv(x, f)

_energy_to_power(value, from_unit, to_unit) ==
    \* energy_mwh / hours = power_mw, then power_mw * factor(MW -> to_unit)
    Times(Over(Times(value, get_conversion_factor(from_unit, "MWh")), ROne),
          get_conversion_factor("MW", to_unit))

_power_to_energy(value, from_unit, to_unit) ==
    \* power_mw * hours = energy_mwh, then energy_mwh * factor(MWh -> to_unit)
    Times(Times(Times(value, get_conversion_factor(from_unit, "MW")), ROne),
          get_conversion_factor("MWh", to_unit))

_mass_to_volume(value, from_unit, to_unit, substance) ==
    \* mass_kg / density = volume_m3, then volume_m3 * factor(m3 -> to_unit)
    IF substance = None THEN RErr
    ELSE Times(Over(Times(value, get_conversion_factor(from_unit, "kg")),
                    density(substance[1])),
               get_conversion_factor("m3", to_unit))

_volume_to_mass(value, from_unit, to_unit, substance) ==
    \* volume_m3 * density = mass_kg, then mass_kg * factor(kg -> to_unit)
    IF substance = None THEN RErr
    ELSE Times(Times(Times(value, get_conversion_factor(from_unit, "m3")),
                     density(substance[1])),
               get_conversion_factor("kg", to_unit))

\* the basis ignored: always the lower heating value
_energy_to_mass_lhv_only(value, from_unit, to_unit, substance, basis) ==
    IF substance = None THEN RErr
    ELSE Times(Times(Over(Times(value, get_conversion_factor(from_unit, "MWh")),
                          Times(lhv(substance[1]), MjKgToMwhT)),
                     Rat(1000, 1)),
               get_conversion_factor("kg", to_unit))

_energy_to_mass(value, from_unit, to_unit, substance, basis) ==
    \* energy_mwh / heating_value_mwh_t = mass_t, mass_t * 1000 = mass_kg,
    \* then mass_kg * factor(kg -> to_unit)
    IF substance = None THEN RErr
    ELSE Times(Times(Over(Times(value, get_conversion_factor(from_unit, "MWh")),
                          Times(HeatingValueFor(substance, basis), MjKgToMwhT)),
                     Rat(1000, 1)),
               get_conversion_factor("kg", to_unit))

_mass_to_energy(value, from_unit, to_unit, substance, basis) ==
    \* mass_kg / 1000 = mass_t, mass_t * heating_value_mwh_t = energy_mwh,
    \* then energy_mwh * factor(MWh -> to_unit)
    IF substance = None THEN RErr
    ELSE Times(Times(Over(Times(value, get_conversion_factor(from_unit, "kg")),
                          Rat(1000, 1)),
                     Times(HeatingValueFor(substance, basis), MjKgToMwhT)),
               get_conversion_factor("MWh", to_unit))

_energy_to_volume(value, from_unit, to_unit, substance, basis) ==
    IF substance = None THEN RErr
    ELSE _mass_to_volume(_energy_to_mass(value, from_unit, "kg", substance, basis),
                         "kg", to_unit, substance)

_volume_to_energy(value, from_unit, to_unit, substance, basis) ==
    IF substance = None THEN RErr
    ELSE _mass_to_energy(_volume_to_mass(value, from_unit, "kg", substance),
                         "kg", to_unit, substance, basis)

\* the dispatch on the pair of dimensions
dispatch_between_dimensions(value, from_unit, to_unit, substance, basis, from_dim, to_dim) ==
    IF IsRErr(value) THEN RErr
    ELSE IF from_dim = "ENERGY" /\ to_dim = "POWER"
        THEN _energy_to_power(value, from_unit, to_unit)
    ELSE IF from_dim = "POWER" /\ to_dim = "ENERGY"
        THEN _power_to_energy(value, from_unit, to_unit)
    ELSE IF from_dim = "MASS" /\ to_dim = "VOLUME"
        THEN _mass_to_volume(value, from_unit, to_unit, substance)
    ELSE IF from_dim = "VOLUME" /\ to_dim = "MASS"
        THEN _volume_to_mass(value, from_unit, to_unit, substance)
    ELSE IF from_dim = "ENERGY" /\ to_dim = "MASS"
        THEN _energy_to_mass(value, from_unit, to_unit, substance, basis)
    ELSE IF from_dim = "MASS" /\ to_dim = "ENERGY"
        THEN _mass_to_energy(value, from_unit, to_unit, substance, basis)
    ELSE IF from_dim = "ENERGY" /\ to_dim = "VOLUME"
        THEN _energy_to_volume(value, from_unit, to_unit, substance, basis)
    ELSE IF from_dim = "VOLUME" /\ to_dim = "ENERGY"
        THEN _volume_to_energy(value, from_unit, to_unit, substance, basis)
    ELSE RErr

convert_between_dimensions(value, from_unit, to_unit, substance, basis) ==
    dispatch_between_dimensions(value, from_unit, to_unit, substance, basis,
             get_dimension(from_unit), get_dimension(to_unit))

(***************************************************************************)
(* Quantity.  QErr is a raised exception in place of a Quantity.           *)
(***************************************************************************)
QErr == [ok |-> FALSE]

Quantity(value, unit, substance, basis, reference_year) ==
    IF get_dimension(unit) = ValueError THEN QErr
    ELSE [ok |-> TRUE, value |-> value, unit |-> unit, substance |-> substance,
          basis |-> basis, reference_year |-> reference_year,
          dimension |-> get_dimension(unit)]

VHasErr(v) == \E i \in DOMAIN v.data : IsRErr(v.data[i])

\* the factor between the two units: an exchange rate when both name a
\* currency and the currencies differ, else the registry's factor
conversion_factor(self, target_unit, year_for_exchange_rate) ==
    LET source_currency == exchange_detect_currency_from_unit(self.unit)
        target_currency == exchange_detect_currency_from_unit(target_unit)
        year == IF year_for_exchange_rate # None THEN year_for_exchange_rate
                ELSE self.reference_year
    IN  IF /\ source_currency # None
           /\ target_currency # None
           /\ source_currency # target_currency
        THEN exchange_get_conversion_factor(source_currency[1], target_currency[1], year)
        ELSE get_conversion_factor(self.unit, target_unit)

\* the converted value: value * factor within a dimension, else the
\* cross-dimension converter applied to each element
new_value(self, target_unit, to_dim, factor) ==
    IF self.dimension = to_dim
    THEN [shape |-> self.value.shape,
          data |-> [i \in DOMAIN self.value.data |-> Times(self.value.data[i], factor)]]
    ELSE [shape |-> self.value.shape,
          data |-> [i \in DOMAIN self.value.data |->
              convert_between_dimensions(self.value.data[i], self.unit, target_unit,
                                         self.substance, self.basis)]]

\* the checks of _convert_unit and the Quantity it builds from the value
converted_quantity(self, target_unit, to_dim, value) ==
    IF to_dim = ValueError THEN QErr
    ELSE IF self.dimension # to_dim /\ ~are_dimensions_compatible(self.dimension, to_dim)
        THEN QErr
    ELSE IF VHasErr(value) THEN QErr
    ELSE Quantity(value, target_unit, self.substance, self.basis, self.reference_year)

_convert_unit(self, target_unit, year_for_exchange_rate) ==
    converted_quantity(self, target_unit, get_dimension(target_unit),
        new_value(self, target_unit, get_dimension(target_unit),
                  conversion_factor(self, target_unit, year_for_exchange_rate)))

_convert_basis(self, target_basis) ==
    LET current_basis == IF self.basis = None THEN "LHV" ELSE self.basis[1]
        target == Upper(target_basis)
        ratio == lhv_hhv_ratio(self.substance[1])
    IN  IF target \notin {"HHV", "LHV"} THEN QErr
        ELSE IF self.substance = None THEN QErr
        ELSE IF Upper(current_basis) = target
            THEN Quantity(self.value, self.unit, self.substance, Some(target),
                          self.reference_year)
        ELSE IF IsRErr(ratio) THEN QErr
        ELSE IF Upper(current_basis) = "HHV" /\ target = "LHV"
            THEN Quantity(VScale(self.value, ratio), self.unit, self.substance,
                          Some(target), self.reference_year)
        ELSE IF Upper(current_basis) = "LHV" /\ target = "HHV"
            THEN Quantity(VUnscale(self.value, ratio), self.unit, self.substance,
                          Some(target), self.reference_year)
        ELSE QErr

\* fuel_quantity.to("t") and other.to(denominator): a to() with the unit only
ToUnit(self, target_unit) == _convert_unit(self, target_unit, None)

\* the molar masses the wrong way round: 12 / 44
CO2PerCarbon_inverted == Frac(3, 11)

CO2PerCarbon == Frac(11, 3)
H2OPerHydrogen == Frac(9, 1)

\* the product mass from the fuel mass in tonnes
product_of(fuel_quantity, target_substance, fuel_t) ==
    LET substance == _substances[fuel_quantity.substance[1]]
    IN  IF fuel_quantity.substance = None THEN QErr
        ELSE IF ~fuel_t.ok THEN QErr
        ELSE IF fuel_quantity.substance[1] \notin DOMAIN _substances THEN QErr
        ELSE IF target_substance = "CO2"
            THEN Quantity(VScale(VScale(fuel_t.value, substance.carbon_content), CO2PerCarbon),
                          "t", Some("CO2"), None, None)
        ELSE IF target_substance = "H2O"
            THEN Quantity(VScale(VScale(fuel_t.value, substance.hydrogen_content),
                                 H2OPerHydrogen),
                          "t", Some("H2O"), None, None)
        ELSE IF target_substance = "ash"
            THEN Quantity(VScale(fuel_t.value, substance.ash_content),
                          "t", Some("ash"), None, None)
        ELSE QErr

calculate_combustion_product(fuel_quantity, target_substance) ==
    product_of(fuel_quantity, target_substance, ToUnit(fuel_quantity, "t"))

valid_products == {"CO2", "H2O", "ash"}

\* a substance left out of the list
Renewables_without_nuclear == {"wind", "solar", "hydro"}

Renewables == {"wind", "solar", "hydro", "nuclear"}

\* the checks of _convert_substance around the combustion product
substance_result(self, target_substance, combustion_product) ==
    IF self.substance = None THEN QErr
    ELSE IF target_substance \notin valid_products THEN QErr
    ELSE IF self.substance[1] \in Renewables
        THEN Quantity(Scalar(RZero), "t", Some(target_substance), None, None)
    ELSE IF ~combustion_product.ok THEN QErr
    ELSE Quantity(combustion_product.value, combustion_product.unit,
                  Some(target_substance), None, self.reference_year)

_convert_substance(self, target_substance) ==
    substance_result(self, target_substance,
                     calculate_combustion_product(self, target_substance))

_convert_reference_year(self, target_year) ==
    LET currency == inflation_detect_currency_from_unit(self.unit)
        inflation_factor ==
            get_cumulative_inflation_factor(currency[1], self.reference_year[1], target_year)
    IN  IF self.reference_year = None THEN QErr
        ELSE IF target_year = self.reference_year[1]
            THEN Quantity(self.value, self.unit, self.substance, self.basis, Some(target_year))
        ELSE IF currency = None THEN QErr
        ELSE IF IsRErr(inflation_factor) THEN QErr
        ELSE Quantity(VScale(self.value, inflation_factor), self.unit, self.substance,
                      self.basis, Some(target_year))

(***************************************************************************)
(* Quantity.to: substance -> basis -> unit -> inflation, except that a     *)
(* currency conversion combined with a year change inflates first.         *)
(* Every argument is None or Some(_).                                      *)
(***************************************************************************)
is_currency_conversion(self, target_unit) ==
    /\ target_unit # None
    /\ LET source_currency == exchange_detect_currency_from_unit(self.unit)
           target_currency == exchange_detect_currency_from_unit(target_unit[1])
       IN  /\ source_currency # None
           /\ target_currency # None
           /\ source_currency # target_currency

is_year_change(self, reference_year) ==
    /\ reference_year # None
    /\ self.reference_year # None
    /\ reference_year # self.reference_year

\* the special case left out: always unit conversion first
needs_reordering_never(self, target_unit, reference_year) == FALSE

\* the year test left out: every currency conversion is reordered and warned
needs_reordering_currency_only(self, target_unit, reference_year) ==
    is_currency_conversion(self, target_unit) /\ reference_year # None

needs_reordering(self, target_unit, reference_year) ==
    is_currency_conversion(self, target_unit) /\ is_year_change(self, reference_year)

\* result after the two standard conversions (substance, then basis)
AfterSubstance(self, substance) ==
    IF substance # None /\ self.substance # substance
    THEN _convert_substance(self, substance[1])
    ELSE self

\* the basis step on the result of the substance step
BasisStep(result, basis) ==
    IF ~result.ok THEN QErr
    ELSE IF basis # None /\ result.basis # basis THEN _convert_basis(result, basis[1])
    ELSE result

AfterBasis(self, basis, substance) == BasisStep(AfterSubstance(self, substance), basis)

\* the unit step on the inflated quantity, at the target year's rate
ConvertInflated(inflated, target_unit, reference_year) ==
    IF ~inflated.ok THEN QErr
    ELSE _convert_unit(inflated, target_unit[1], reference_year)

InflateThenConvert(result, target_unit, reference_year) ==
    ConvertInflated(_convert_reference_year(result, reference_year[1]), target_unit,
                    reference_year)

\* the inflation step on the converted quantity
InflateConverted(converted, reference_year) ==
    IF ~converted.ok THEN QErr
    ELSE IF reference_year # None
        THEN _convert_reference_year(converted, reference_year[1])
    ELSE converted

ConvertThenInflate(result, target_unit, reference_year) ==
    InflateConverted(IF target_unit # None THEN _convert_unit(result, target_unit[1], None)
                     ELSE result,
                     reference_year)

\* the unit and year steps on the result of the substance and basis steps
UnitAndYearSteps(self, result, target_unit, basis, substance, reference_year) ==
    IF ~result.ok THEN QErr
    ELSE IF needs_reordering(self, target_unit, reference_year)
        THEN InflateThenConvert(result, target_unit, reference_year)
    ELSE IF target_unit = None /\ basis = None /\ substance = None
            /\ reference_year = None
        THEN Quantity(self.value, self.unit, self.substance, self.basis,
                      self.reference_year)
    ELSE ConvertThenInflate(result, target_unit, reference_year)

\* to() returns result, which is still self when no step ran, unless every
\* argument is None
ReturnsReceiver(self, target_unit, basis, substance, reference_year) ==
    /\ ~(substance # None /\ self.substance # substance)
    /\ ~(basis # None /\ self.basis # basis)
    /\ target_unit = None
    /\ reference_year = None
    /\ ~(basis = None /\ substance = None)

To(self, target_unit, basis, substance, reference_year) ==
    UnitAndYearSteps(self, AfterBasis(self, basis, substance), target_unit, basis,
                     substance, reference_year)

\* the number of times warn_currency_inflation_combination is called by to()
ToWarnings(self, target_unit, basis, substance, reference_year) ==
    IF AfterBasis(self, basis, substance).ok
       /\ needs_reordering(self, target_unit, reference_year)
    THEN 1 ELSE 0

(***************************************************************************)
(* Quantity * Quantity and Quantity / Quantity.                            *)
(***************************************************************************)
_multiply_units(unit1, unit2, dim1, dim2) ==
    IF HasSlash(unit1) /\ StrIn(unit2, unit1) THEN SplitNum(unit1)
    ELSE IF HasSlash(unit2) /\ StrIn(unit1, unit2) THEN SplitNum(unit2)
    ELSE LET result == get_multiplication_result(dim1, dim2)
         IN  IF result # None
             THEN get_corresponding_unit(IF dim1 = result[2] THEN unit1 ELSE unit2,
                                         result[1])
             ELSE unit1 \o "·" \o unit2

MergeSubstance(self, other) ==
    IF self.substance = other.substance THEN self.substance
    ELSE IF self.substance = None THEN other.substance
    ELSE IF other.substance = None THEN self.substance
    ELSE None

MergeBasis(self, other) == IF self.basis = other.basis THEN self.basis ELSE None

\* a reference year on one operand only is adopted
MergeYear_adopting(self, other) ==
    IF self.reference_year = other.reference_year THEN self.reference_year
    ELSE IF self.reference_year = None THEN other.reference_year
    ELSE IF other.reference_year = None THEN self.reference_year
    ELSE None

MergeYear(self, other) ==
    IF self.reference_year = other.reference_year THEN self.reference_year ELSE None

\* the operand conversions of the smart compound unit cancellation
self_converted(self, other) ==
    IF HasSlash(self.unit) THEN self
    ELSE IF HasSlash(other.unit)
            /\ self.dimension = get_dimension(SplitDen(other.unit))
            /\ self.unit # SplitDen(other.unit)
        THEN ToUnit(self, SplitDen(other.unit))
    ELSE self

other_converted(self, other) ==
    IF HasSlash(self.unit)
       /\ other.dimension = get_dimension(SplitDen(self.unit))
       /\ other.unit # SplitDen(self.unit)
    THEN ToUnit(other, SplitDen(self.unit))
    ELSE other

\* the product once its unit is known
Product(self, other, sc, oc, result_unit) ==
    IF result_unit = ValueError THEN QErr
    ELSE Quantity(VMul(sc.value, oc.value), result_unit, MergeSubstance(self, other),
                  MergeBasis(self, other), MergeYear(self, other))

\* the product of the two converted operands
MulConverted(self, other, sc, oc) ==
    IF ~sc.ok \/ ~oc.ok THEN QErr
    ELSE Product(self, other, sc, oc,
                 _multiply_units(sc.unit, oc.unit, sc.dimension, oc.dimension))

Mul(self, other) ==
    MulConverted(self, other, self_converted(self, other), other_converted(self, other))

_divide_units(unit1, unit2, dim1, dim2) ==
    LET result_dimension == get_division_result(dim1, dim2)
    IN  IF result_dimension # None THEN get_corresponding_unit(unit1, result_dimension[1])
        ELSE IF unit1 = unit2 THEN ""
        ELSE unit1 \o "/" \o unit2

Div(self, other) ==
    LET result_unit == _divide_units(self.unit, other.unit, self.dimension, other.dimension)
    IN  IF result_unit = ValueError THEN QErr
        ELSE Quantity(VDiv(self.value, other.value), result_unit,
                      MergeSubstance(self, other), MergeBasis(self, other),
                      MergeYear(self, other))

(***************************************************************************)
(* Quantity + Quantity and Quantity - Quantity.                            *)
(***************************************************************************)
\* self.substance if self.substance == other.substance else None
SameSubstance(self, other) ==
    IF self.substance = other.substance THEN self.substance ELSE None

\* self.basis if self.basis == other.basis else None
SameBasis(self, other) == IF self.basis = other.basis THEN self.basis ELSE None

\* the warnings.warn of __add__ and __sub__
SubstancesDiffer(self, other) ==
    /\ self.substance # None
    /\ other.substance # None
    /\ self.substance # other.substance

\* other.to(self.unit)
OtherInUnitOf(self, other) == To(other, Some(self.unit), None, None, None)

\* the result of __add__ (or __sub__) once other is converted
Combined(self, other, oc, subtract) ==
    IF ~oc.ok THEN QErr
    ELSE Quantity(IF subtract THEN VSub(self.value, oc.value)
                  ELSE VAdd(self.value, oc.value),
                  self.unit, SameSubstance(self, other), SameBasis(self, other),
                  self.reference_year)

\* other added as it is, without other.to(self.unit)
Add_unconverted(self, other) == Combined(self, other, other, FALSE)

Add(self, other) == Combined(self, other, OtherInUnitOf(self, other), FALSE)

Sub(self, other) == Combined(self, other, OtherInUnitOf(self, other), TRUE)

\* the number of warnings __add__ and __sub__ emit
SumWarnings(self, other) ==
    IF OtherInUnitOf(self, other).ok
    THEN ToWarnings(other, Some(self.unit), None, None, None)
         + (IF SubstancesDiffer(self, other) THEN 1 ELSE 0)
    ELSE 0

(***************************************************************************)
(* The comparison operators: other is converted to self's unit and the     *)
(* values are compared element by element (np.all, np.any for !=).         *)
(***************************************************************************)
Relations == {"lt", "gt", "eq", "le", "ge", "ne"}

RLess(x, y) == x.num * y.den < y.num * x.den

Related(rel, x, y) ==
    CASE rel = "lt" -> RLess(x, y)
      [] rel = "gt" -> RLess(y, x)
      [] rel = "le" -> ~RLess(y, x)
      [] rel = "ge" -> ~RLess(x, y)
      [] rel = "eq" -> x = y
      [] rel = "ne" -> x # y

\* the truth value once other is converted
Compared(self, oc, rel) ==
    IF ~oc.ok THEN QErr
    ELSE [ok |-> TRUE,
          truth |-> IF rel = "ne"
                    THEN \E i \in DOMAIN VShape(self.value, oc.value).data :
                             Related(rel, VElem(self.value, i), VElem(oc.value, i))
                    ELSE \A i \in DOMAIN VShape(self.value, oc.value).data :
                             Related(rel, VElem(self.value, i), VElem(oc.value, i))]

\* the values compared as they are, without other.to(self.unit)
Compare_unconverted(self, other, rel) == Compared(self, other, rel)

Compare(self, other, rel) == Compared(self, OtherInUnitOf(self, other), rel)

(***************************************************************************)
(* The inputs of the model: the quantities a caller constructs and the     *)
(* arguments of the calls.                                                 *)
(***************************************************************************)
Values ==
    {Scalar(Rat(n, 1)) : n \in 1..MaxValue} \cup {Array(<<Rat(1, 1), Rat(MaxValue, 1)>>)}

DataYears == DOMAIN _inflation_data["USD"]
Years == (SetMax(DataYears) - Cardinality(DataYears))..(SetMax(DataYears) + 1)

OptYears == {None} \cup {Some(y) : y \in DataYears}

MoneyUnits == {"USD", "EUR", "GBP", "USD/kW", "EUR/MWh", "USD/MWh"}

MoneyQuantities ==
    {Quantity(v, u, None, None, y) : v \in Values, u \in MoneyUnits, y \in OptYears}

FuelUnits == {"t", "kg", "MWh", "m3"}
FuelSubstances == {None, Some("lignite"), Some("natural_gas"), Some("wind"), Some("nuclear"),
                   Some("CO2")}
Bases == {None, Some("HHV"), Some("LHV")}

FuelQuantities ==
    {Quantity(v, u, s, b, None) : v \in Values, u \in FuelUnits, s \in FuelSubstances,
                                  b \in Bases}

PhysicalUnits == {"MWh", "GJ", "kWh", "MW", "kW", "MWh/h", "h", "min", "t", "m3"}
PriceUnits == {"USD/kW", "USD/MWh", "USD/t", "USD"}

ArithQuantities ==
    {Quantity(v, u, None, None, None) : v \in Values, u \in PhysicalUnits \cup PriceUnits}

ScalarOperands ==
    {Quantity(Scalar(Rat(n, 1)), u, None, None, None) :
        n \in 1..MaxValue, u \in PhysicalUnits \cup PriceUnits}

\* right operands of + and -
SumOperands ==
    {Quantity(v, u, s, b, None) :
        v \in Values, u \in {"t", "kg", "MWh"},
        s \in {None, Some("lignite"), Some("natural_gas")}, b \in Bases}

\* the dimensionless quotients of two quantities with the same unit
Ratios ==
    {Div(Quantity(Scalar(Rat(n, 1)), "MWh", None, None, None),
         Quantity(Scalar(Rat(d, 1)), "MWh", None, None, None)) :
        n \in 1..MaxValue, d \in 1..MaxValue}

\* quantities of several dimensions, with and without a substance
MixedQuantities ==
    {Quantity(v, u, s, None, None) :
        v \in Values, u \in {"MWh", "MW", "t", "m3"}, s \in {None, Some("lignite")}}
    \cup Ratios

\* operands of * and / that carry substance, basis and reference year
Tags ==
    [substance : {None, Some("lignite"), Some("natural_gas")},
     basis : Bases,
     reference_year : {None, Some(2020), Some(2021)}]

TaggedQuantities ==
    {Quantity(Scalar(Rat(MaxValue, 1)), u, t.substance, t.basis, t.reference_year) :
        u \in {"t", "MWh", "MW", "USD/t"}, t \in Tags}

TaggedOperands ==
    {Quantity(Scalar(Rat(2, 1)), u, t.substance, t.basis, t.reference_year) :
        u \in {"t", "h"}, t \in Tags}

\* unit strings handed to detect_currency_from_unit
DetectUnits ==
    {"USD", "EUR/MWh", "GBP/kW", "$/kWh", "MWh", "t/h", "dollar/t", "EUR/USD",
     "eur/MWh", "Usd", "EUROS/MWh", "kUSD/t", "MWh/GBP", "US/D"}

MoneyArgs ==
    [target_unit : {None} \cup {Some(u) : u \in MoneyUnits \cup {"MWh"}},
     basis : {None, Some("LHV")},
     substance : {None},
     reference_year : {None} \cup {Some(y) : y \in Years}]

\* to(reference_year=Y)
YearArgs ==
    [target_unit : {None},
     basis : {None},
     substance : {None},
     reference_year : {Some(y) : y \in Years}]

\* to(target_unit)
UnitTargets == FuelUnits \cup PhysicalUnits \cup MoneyUnits

UnitArgs ==
    [target_unit : {Some(u) : u \in UnitTargets},
     basis : {None},
     substance : {None},
     reference_year : {None}]

FuelArgs ==
    [target_unit : {None, Some("t"), Some("MWh"), Some("kWh")},
     basis : Bases \cup {Some("XYZ")},
     substance : {None, Some("CO2"), Some("H2O"), Some("ash"), Some("lignite"), Some("N2")},
     reference_year : {None}]

(***************************************************************************)
(* The catalogs: the tables of the four registries that the add, update,   *)
(* remove and load methods assign to.  catalog records, table by table,    *)
(* the entries in which a table differs from the one its constructor built *)
(* (Defaults): Some(v) for a key that now holds v, None for a key that was *)
(* deleted.  A table equal to its default has no such entry.               *)
(***************************************************************************)
Defaults ==
    [dimensions |-> _dimensions,
     conversion_factors |-> _conversion_factors,
     base_units |-> _base_units,
     corresponding_units |-> _corresponding_units,
     custom_conversions |-> <<>>,
     substances |-> _substances,
     inflation_data |-> _inflation_data,
     exchange_rate_data |-> _exchange_rate_data]

\* the registries after their constructors
DefaultCatalog == [t \in DOMAIN Defaults |-> <<>>]

Put(changes, key, value) ==
    [k \in DOMAIN changes \cup {key} |-> IF k = key THEN value ELSE changes[k]]

Drop(changes, key) == [k \in DOMAIN changes \ {key} |-> changes[k]]

\* key in table
Has(c, t, key) ==
    IF key \in DOMAIN c[t] THEN c[t][key] # None ELSE key \in DOMAIN Defaults[t]

\* table[key]
Get(c, t, key) == IF key \in DOMAIN c[t] THEN c[t][key][1] ELSE Defaults[t][key]

\* the keys of table
Keys(c, t) == {k \in DOMAIN c[t] \cup DOMAIN Defaults[t] : Has(c, t, k)}

\* table[key] = value
Set(c, t, key, value) ==
    [c EXCEPT ![t] = IF key \in DOMAIN Defaults[t] /\ Defaults[t][key] = value
                     THEN Drop(@, key)
                     ELSE Put(@, key, Some(value))]

\* del table[key]
Remove(c, t, key) ==
    [c EXCEPT ![t] = IF key \in DOMAIN Defaults[t] THEN Put(@, key, None)
                     ELSE Drop(@, key)]

\* a get_dimension that stores the dimension it derived for a compound unit
AfterGetDimension_memoized(c, unit) ==
    IF HasSlash(unit) /\ get_dimension(unit) # ValueError
    THEN Set(c, "dimensions", unit, get_dimension(unit))
    ELSE c

\* the catalog after get_dimension(unit), the lookup every construction and
\* every call starts with: it tests and reads _dimensions and stores nothing
AfterGetDimension(c, unit) == c

(***************************************************************************)
(* The extension API of UnitRegistry and SubstanceRegistry on a catalog c. *)
(* A method that raises leaves c as it is.                                 *)
(***************************************************************************)
add_unit(c, unit, dimension, factor) ==
    IF ~Has(c, "base_units", dimension)
    THEN Set(Set(Set(c, "base_units", dimension, unit), "dimensions", unit, dimension),
             "conversion_factors", unit,
             IF Has(c, "conversion_factors", unit) THEN factor ELSE ROne)
    ELSE Set(Set(c, "dimensions", unit, dimension), "conversion_factors", unit,
             factor)

add_unit_with_reference_raises(c, reference_unit) ==
    ~Has(c, "conversion_factors", reference_unit)

add_unit_with_reference(c, unit, dimension, reference_value, reference_unit) ==
    IF add_unit_with_reference_raises(c, reference_unit) THEN c
    ELSE add_unit(c, unit, dimension,
                  RMul(reference_value, Get(c, "conversion_factors", reference_unit)))

add_corresponding_unit(c, unit1, unit2) ==
    Set(Set(c, "corresponding_units", unit1, unit2), "corresponding_units", unit2, unit1)

\* conversion_func is the multiplication by f
add_dimension_conversion(c, from_dim, to_dim, f) ==
    Set(c, "custom_conversions", <<from_dim, to_dim>>, f)

\* the unit is unknown or is the base unit of its dimension
remove_unit_raises(c, unit) ==
    \/ ~Has(c, "dimensions", unit)
    \/ /\ Has(c, "base_units", Get(c, "dimensions", unit))
       /\ Get(c, "base_units", Get(c, "dimensions", unit)) = unit

\* the deletions of remove_unit from the correspondences
without_correspondence(c, unit) ==
    IF ~Has(c, "corresponding_units", unit) THEN c
    ELSE IF Get(c, "corresponding_units", unit) # unit
            /\ Has(c, "corresponding_units", Get(c, "corresponding_units", unit))
        THEN Remove(Remove(c, "corresponding_units", unit), "corresponding_units",
                    Get(c, "corresponding_units", unit))
    ELSE Remove(c, "corresponding_units", unit)

remove_unit(c, unit) ==
    IF remove_unit_raises(c, unit) THEN c
    ELSE without_correspondence(
             IF Has(c, "conversion_factors", unit)
             THEN Remove(Remove(c, "dimensions", unit), "conversion_factors", unit)
             ELSE Remove(c, "dimensions", unit),
             unit)

validate_registry(c) ==
    [missing_conversion_factors |->
         {unit \in Keys(c, "dimensions") :
             /\ ~(/\ Has(c, "base_units", Get(c, "dimensions", unit))
                  /\ Get(c, "base_units", Get(c, "dimensions", unit)) = unit)
             /\ ~Has(c, "conversion_factors", unit)},
     orphaned_correspondences |->
         {unit \in Keys(c, "corresponding_units") : ~Has(c, "dimensions", unit)},
     missing_base_units |->
         {<<dimension, Get(c, "base_units", dimension)>> :
             dimension \in {d \in Keys(c, "base_units") :
                               ~Has(c, "dimensions", Get(c, "base_units", d))}},
     circular_correspondences |->
         {unit \in Keys(c, "corresponding_units") :
             /\ Has(c, "corresponding_units", Get(c, "corresponding_units", unit))
             /\ Get(c, "corresponding_units", Get(c, "corresponding_units", unit)) # unit}]

remove_substance(c, name) ==
    IF ~Has(c, "substances", name) THEN c ELSE Remove(c, "substances", name)

(***************************************************************************)
(* The state machine: a caller constructs a quantity and invokes one       *)
(* operation on it; res is what the call returned (QErr if it raised) and  *)
(* warnings the number of advisories it emitted.  The calls do not change  *)
(* the receiver, so one call per constructed quantity covers them all.     *)
(* returned tells which object the call returned: "a" for the receiver     *)
(* itself, "first" for the object the first call of a chain returned,      *)
(* "new" for an instance the call constructed and "none" when there is no  *)
(* returned Quantity (no call yet, a raise, a number).  catalog is the     *)
(* state of the registries' tables.                                        *)
(***************************************************************************)
NoCall == [name |-> "init"]

Construct(S) ==
    \E q \in S :
        /\ a' = q
        /\ op' = NoCall
        /\ res' = q
        /\ warnings' = 0
        /\ returned' = "none"
        /\ catalog' = AfterGetDimension(catalog, q.unit)

CallTo(Args) ==
    \E args \in Args :
        /\ op = NoCall
        /\ op' = [name |-> "to", target_unit |-> args.target_unit, basis |-> args.basis,
                  substance |-> args.substance, reference_year |-> args.reference_year]
        /\ res' = To(a, args.target_unit, args.basis, args.substance, args.reference_year)
        /\ warnings' = ToWarnings(a, args.target_unit, args.basis, args.substance,
                                  args.reference_year)
        /\ returned' = IF ~res'.ok THEN "none"
                       ELSE IF ReturnsReceiver(a, args.target_unit, args.basis,
                                               args.substance, args.reference_year)
                       THEN "a" ELSE "new"
        /\ catalog' = AfterGetDimension(catalog, a.unit)
        /\ UNCHANGED a

\* q.to(...).to(...): a second to() on the quantity the first to() returned
CallToResult(Args) ==
    \E args \in Args :
        /\ op.name = "to"
        /\ res.ok
        /\ op' = [name |-> "to_to", first |-> op, target_unit |-> args.target_unit,
                  basis |-> args.basis, substance |-> args.substance,
                  reference_year |-> args.reference_year]
        /\ res' = To(res, args.target_unit, args.basis, args.substance, args.reference_year)
        /\ warnings' = warnings + ToWarnings(res, args.target_unit, args.basis,
                                             args.substance, args.reference_year)
        /\ returned' = IF ~res'.ok THEN "none"
                       ELSE IF ~ReturnsReceiver(res, args.target_unit, args.basis,
                                                args.substance, args.reference_year)
                       THEN "new"
                       ELSE IF returned = "a" THEN "a" ELSE "first"
        /\ catalog' = AfterGetDimension(catalog, a.unit)
        /\ UNCHANGED a

CallMul ==
    \E other \in ScalarOperands :
        /\ op = NoCall
        /\ op' = [name |-> "mul", other |-> other]
        /\ res' = Mul(a, other)
        /\ warnings' = 0
        /\ returned' = IF res'.ok THEN "new" ELSE "none"
        /\ catalog' = AfterGetDimension(catalog, a.unit)
        /\ UNCHANGED a

CallDiv ==
    \E other \in ScalarOperands :
        /\ op = NoCall
        /\ op' = [name |-> "truediv", other |-> other]
        /\ res' = Div(a, other)
        /\ warnings' = 0
        /\ returned' = IF res'.ok THEN "new" ELSE "none"
        /\ catalog' = AfterGetDimension(catalog, a.unit)
        /\ UNCHANGED a

\* (self * other) / other and (self * other) / self: the product of the
\* previous call is divided by one of its two operands
CallDivProduct ==
    \E by \in {"self", "other"} :
        /\ op.name = "mul"
        /\ res.ok
        /\ op' = [name |-> "mul_truediv", other |-> op.other, by |-> by]
        /\ res' = Div(res, IF by = "self" THEN a ELSE op.other)
        /\ warnings' = 0
        /\ returned' = IF res'.ok THEN "new" ELSE "none"
        /\ catalog' = AfterGetDimension(catalog, a.unit)
        /\ UNCHANGED a

CallAddOf(Operands) ==
    \E other \in Operands :
        /\ op = NoCall
        /\ op' = [name |-> "add", other |-> other]
        /\ res' = Add(a, other)
        /\ warnings' = SumWarnings(a, other)
        /\ returned' = IF res'.ok THEN "new" ELSE "none"
        /\ catalog' = AfterGetDimension(catalog, a.unit)
        /\ UNCHANGED a

CallSubOf(Operands) ==
    \E other \in Operands :
        /\ op = NoCall
        /\ op' = [name |-> "sub", other |-> other]
        /\ res' = Sub(a, other)
        /\ warnings' = SumWarnings(a, other)
        /\ returned' = IF res'.ok THEN "new" ELSE "none"
        /\ catalog' = AfterGetDimension(catalog, a.unit)
        /\ UNCHANGED a

CallAdd == CallAddOf(SumOperands)
CallSub == CallSubOf(SumOperands)

\* self < other, self > other, self == other, self <= other, self >= other, self != other
CallCompare(Operands) ==
    \E other \in Operands, rel \in Relations :
        /\ op = NoCall
        /\ op' = [name |-> "compare", rel |-> rel, other |-> other]
        /\ res' = Compare(a, other, rel)
        /\ warnings' = IF res'.ok THEN ToWarnings(other, Some(a.unit), None, None, None) ELSE 0
        /\ returned' = IF res'.ok THEN "new" ELSE "none"
        /\ catalog' = AfterGetDimension(catalog, a.unit)
        /\ UNCHANGED a

CallMulTagged ==
    \E other \in TaggedOperands :
        /\ op = NoCall
        /\ op' = [name |-> "mul", other |-> other]
        /\ res' = Mul(a, other)
        /\ warnings' = 0
        /\ returned' = IF res'.ok THEN "new" ELSE "none"
        /\ catalog' = AfterGetDimension(catalog, a.unit)
        /\ UNCHANGED a

CallDivTagged ==
    \E other \in TaggedOperands :
        /\ op = NoCall
        /\ op' = [name |-> "truediv", other |-> other]
        /\ res' = Div(a, other)
        /\ warnings' = 0
        /\ returned' = IF res'.ok THEN "new" ELSE "none"
        /\ catalog' = AfterGetDimension(catalog, a.unit)
        /\ UNCHANGED a

CallCorrespondingUnit ==
    \E unit \in PhysicalUnits, target_dimension \in {"ENERGY", "POWER", "MASS", "VOLUME"} :
        /\ op = NoCall
        /\ op' = [name |-> "get_corresponding_unit", unit |-> unit,
                  target_dimension |-> target_dimension]
        /\ res' = get_corresponding_unit(unit, target_dimension)
        /\ warnings' = 0
        /\ returned' = "none"
        /\ catalog' = AfterGetDimension(catalog, a.unit)
        /\ UNCHANGED a

CallDetectCurrency ==
    \E registry \in {"exchange_rate", "inflation"}, unit \in DetectUnits :
        /\ op = NoCall
        /\ op' = [name |-> "detect_currency_from_unit", registry |-> registry,
                  unit |-> unit]
        /\ res' = IF registry = "inflation" THEN inflation_detect_currency_from_unit(unit)
                  ELSE exchange_detect_currency_from_unit(unit)
        /\ warnings' = 0
        /\ returned' = "none"
        /\ catalog' = AfterGetDimension(catalog, a.unit)
        /\ UNCHANGED a

CallInflationFactor ==
    \E currency \in {"USD", "EUR", "GBP"}, from_year \in Years, to_year \in Years :
        /\ op = NoCall
        /\ op' = [name |-> "get_cumulative_inflation_factor", currency |-> currency,
                  from_year |-> from_year, to_year |-> to_year]
        /\ res' = get_cumulative_inflation_factor(currency, from_year, to_year)
        /\ warnings' = 0
        /\ returned' = "none"
        /\ catalog' = AfterGetDimension(catalog, a.unit)
        /\ UNCHANGED a

CallExchangeRate ==
    \E currency \in {"USD", "EUR", "GBP", "JPY"}, year \in {None} \cup {Some(y) : y \in Years} :
        /\ op = NoCall
        /\ op' = [name |-> "get_exchange_rate", currency |-> currency, year |-> year]
        /\ res' = get_exchange_rate(currency, year)
        /\ warnings' = 0
        /\ returned' = "none"
        /\ catalog' = AfterGetDimension(catalog, a.unit)
        /\ UNCHANGED a

\* a call that returns None or raises, leaving the quantities alone
Returned(name, args, raised) ==
    /\ op' = [name |-> name, args |-> args]
    /\ res' = [ok |-> ~raised]
    /\ warnings' = 0
    /\ returned' = "none"
    /\ UNCHANGED a

CallAddUnit(Units, Dimensions, Factors) ==
    \E unit \in Units, dimension \in Dimensions, factor \in Factors :
        /\ catalog' = add_unit(catalog, unit, dimension, factor)
        /\ Returned("add_unit", <<unit, dimension, factor>>, FALSE)

CallAddUnitWithReference(Units, Dimensions, Factors, References) ==
    \E unit \in Units, dimension \in Dimensions, reference_value \in Factors,
       reference_unit \in References :
        /\ catalog' = add_unit_with_reference(catalog, unit, dimension, reference_value,
                                              reference_unit)
        /\ Returned("add_unit_with_reference",
                    <<unit, dimension, reference_value, reference_unit>>,
                    add_unit_with_reference_raises(catalog, reference_unit))

CallRemoveUnit(Units) ==
    \E unit \in Units :
        /\ catalog' = remove_unit(catalog, unit)
        /\ Returned("remove_unit", <<unit>>, remove_unit_raises(catalog, unit))

\* called on registered units
CallAddCorrespondingUnit(Units) ==
    \E unit1 \in Units, unit2 \in Units :
        /\ Has(catalog, "dimensions", unit1)
        /\ Has(catalog, "dimensions", unit2)
        /\ catalog' = add_corresponding_unit(catalog, unit1, unit2)
        /\ Returned("add_corresponding_unit", <<unit1, unit2>>, FALSE)

CallAddDimensionConversion(Pairs, Factors) ==
    \E pair \in Pairs, f \in Factors :
        /\ catalog' = add_dimension_conversion(catalog, pair[1], pair[2], f)
        /\ Returned("add_dimension_conversion", <<pair[1], pair[2], f>>, FALSE)

CallRemoveSubstance(Names) ==
    \E name \in Names :
        /\ catalog' = remove_substance(catalog, name)
        /\ Returned("remove_substance", <<name>>, ~Has(catalog, "substances", name))

CallValidateRegistry ==
    /\ op' = [name |-> "validate_registry"]
    /\ res' = [ok |-> TRUE, issues |-> validate_registry(catalog)]
    /\ warnings' = 0
    /\ returned' = "none"
    /\ UNCHANGED <<a, catalog>>

InitFrom(S) ==
    /\ a \in S
    /\ op = NoCall
    /\ res = a
    /\ warnings = 0
    /\ returned = "none"
    /\ catalog = DefaultCatalog

\* currency and reference-year conversions
InitMoney == InitFrom(MoneyQuantities)
ConstructMoney == Construct(MoneyQuantities)
CallToMoney == CallTo(MoneyArgs)
NextMoney == ConstructMoney \/ CallToMoney
SpecMoney == InitMoney /\ [][NextMoney]_vars

\* substance, basis and cross-dimension conversions
InitFuel == InitFrom(FuelQuantities)
ConstructFuel == Construct(FuelQuantities)
CallToFuel == CallTo(FuelArgs)
NextFuel == ConstructFuel \/ CallToFuel
SpecFuel == InitFuel /\ [][NextFuel]_vars

\* arithmetic between quantities
InitArith == InitFrom(ArithQuantities)
ConstructArith == Construct(ArithQuantities)
NextArith ==
    ConstructArith \/ CallMul \/ CallDiv \/ CallDivProduct \/ CallCorrespondingUnit
SpecArith == InitArith /\ [][NextArith]_vars

\* the inflation and exchange-rate registries on their own
NextInflation ==
    ConstructMoney \/ CallInflationFactor \/ CallExchangeRate \/ CallDetectCurrency
SpecInflation == InitMoney /\ [][NextInflation]_vars

\* chains of inflation adjustments
CallToYear == CallTo(YearArgs)
CallToYearAgain == CallToResult(YearArgs)
NextYears == ConstructMoney \/ CallToYear \/ CallToYearAgain
SpecYears == InitMoney /\ [][NextYears]_vars

\* unit conversions there and back: q.to(V).to(U) for a quantity q in unit U
BackArgs(q) ==
    [target_unit : {Some(q.unit)},
     basis : {None},
     substance : {None},
     reference_year : {None}]

RoundTripQuantities == FuelQuantities \cup ArithQuantities \cup MoneyQuantities
InitRoundTrip == InitFrom(RoundTripQuantities)
ConstructRoundTrip == Construct(RoundTripQuantities)
CallToUnit == CallTo(UnitArgs)
CallToBack == CallToResult(BackArgs(a))
NextRoundTrip == ConstructRoundTrip \/ CallToUnit \/ CallToBack
SpecRoundTrip == InitRoundTrip /\ [][NextRoundTrip]_vars

\* sums and differences of quantities
NextSum == ConstructFuel \/ CallAdd \/ CallSub
SpecSum == InitFuel /\ [][NextSum]_vars

\* to(substance=P) for a combustion product P
ProductArgs ==
    [target_unit : {None},
     basis : {None},
     substance : {Some("CO2"), Some("H2O"), Some("ash")},
     reference_year : {None}]

\* fuels, renewables and quantities without substance, priced in a year or not
DatedFuels ==
    {Quantity(Scalar(Rat(MaxValue, 1)), u, s, b, y) :
        u \in {"t", "MWh"},
        s \in {None, Some("lignite"), Some("natural_gas"), Some("wind")},
        b \in Bases,
        y \in {None, Some(2020)}}

\* prices per energy and per power, in two currencies and two scales
CompoundPriceUnits ==
    {"EUR/MWh", "USD/MWh", "EUR/GJ", "USD/GJ", "USD/kW", "EUR/kW", "USD/MW", "EUR/MW"}

CompoundPrices ==
    {Quantity(v, u, None, None, y) :
        v \in Values, u \in {"EUR/MWh", "USD/kW", "USD/GJ"},
        y \in {None, Some(2020), Some(2021)}}

\* to(target_unit) with a compound price unit
CompoundPriceArgs ==
    [target_unit : {Some(u) : u \in CompoundPriceUnits},
     basis : {None},
     substance : {None},
     reference_year : {None}]

\* to(target_unit) with the dimensionless unit or an energy unit
MixedArgs ==
    [target_unit : {Some(""), Some("MWh")},
     basis : {None},
     substance : {None},
     reference_year : {None}]

\* to() with any combination of arguments
FrameArgs ==
    FuelArgs \cup [target_unit : {None, Some("EUR/t")},
                   basis : {None},
                   substance : {None},
                   reference_year : {Some(2020), Some(2021)}]

\* products and quotients of quantities that carry metadata
InitTagged == InitFrom(TaggedQuantities)
ConstructTagged == Construct(TaggedQuantities)
NextTagged == ConstructTagged \/ CallMulTagged \/ CallDivTagged
SpecTagged == InitTagged /\ [][NextTagged]_vars

\* a conversion of a fuel followed by a conversion to a combustion product
CallToProduct == CallToResult(ProductArgs)
NextProducts == ConstructFuel \/ CallToFuel \/ CallToProduct
SpecProducts == InitFuel /\ [][NextProducts]_vars

\* to() without reference_year on quantities that carry one
InitDated == InitFrom(DatedFuels)
ConstructDated == Construct(DatedFuels)
NextDated == ConstructDated \/ CallToFuel
SpecDated == InitDated /\ [][NextDated]_vars

\* conversions between compound price units
InitPrices == InitFrom(CompoundPrices)
ConstructPrices == Construct(CompoundPrices)
CallToPrice == CallTo(CompoundPriceArgs)
NextPrices == ConstructPrices \/ CallToPrice
SpecPrices == InitPrices /\ [][NextPrices]_vars

\* sums, differences and comparisons of quantities of several dimensions
InitMixed == InitFrom(MixedQuantities)
ConstructMixed == Construct(MixedQuantities)
CallToMixed == CallTo(MixedArgs)
CallAddMixed == CallAddOf(MixedQuantities)
CallSubMixed == CallSubOf(MixedQuantities)
CallCompareMixed == CallCompare(MixedQuantities)
NextMixed ==
    ConstructMixed \/ CallToMixed \/ CallAddMixed \/ CallSubMixed \/ CallCompareMixed
SpecMixed == InitMixed /\ [][NextMixed]_vars

\* the extension API of the unit registry, on a new unit, a new dimension
\* and units of the default registry
ExtensionUnits == {"MJ", "MWh"}
ExtensionDimensions == {"ENERGY", "POWER", "HEAT"}
ExtensionFactors == {Frac(1, 3600)}
ReferenceUnits == {"GJ", "BTU"}

InitRegistry == InitFrom({Quantity(Scalar(ROne), "MWh", None, None, None)})
CallAddUnitAny == CallAddUnit(ExtensionUnits, ExtensionDimensions, ExtensionFactors)
CallAddUnitWithReferenceAny ==
    CallAddUnitWithReference({"MJ"}, {"ENERGY"}, ExtensionFactors, ReferenceUnits)
CallRemoveUnitAny == CallRemoveUnit(ExtensionUnits \cup {"BTU"})
CallAddCorrespondingUnitAny == CallAddCorrespondingUnit({"MJ", "MW"})
NextRegistry ==
    \/ CallAddUnitAny \/ CallAddUnitWithReferenceAny \/ CallRemoveUnitAny
    \/ CallAddCorrespondingUnitAny \/ CallValidateRegistry
SpecRegistry == InitRegistry /\ [][NextRegistry]_vars

\* the core operations between calls of the add, update and remove methods;
\* the methods are called on entries that the quantities do not use (a new
\* unit MJ, a conversion between dimensions, the substance hydro)
CatalogQuantities ==
    {Quantity(Scalar(ROne), u, s, None, None) :
        u \in {"MWh", "t", "USD/t"}, s \in {None, Some("lignite")}}

CatalogArgs ==
    [target_unit : {Some("MWh"), Some("MW"), Some("h"), Some("")},
     basis : {None},
     substance : {None},
     reference_year : {None}]

CustomPairs == {<<"MASS", "TIME">>, <<"ENERGY", "POWER">>}
CustomFactors == {Frac(2, 1)}

InitCatalog == InitFrom(CatalogQuantities)
ConstructCatalog == Construct(CatalogQuantities)
CallToCatalog == CallTo(CatalogArgs)
CallAddCatalog == CallAddOf(CatalogQuantities)
CallSubCatalog == CallSubOf(CatalogQuantities)
CallCompareCatalog == CallCompare(CatalogQuantities)
CallAddUnitNew == CallAddUnit({"MJ"}, {"ENERGY"}, ExtensionFactors)
CallRemoveUnitNew == CallRemoveUnit({"MJ"})
CallAddDimensionConversionAny == CallAddDimensionConversion(CustomPairs, CustomFactors)
CallRemoveSubstanceAny == CallRemoveSubstance({"hydro"})
NextCatalog ==
    \/ ConstructCatalog \/ CallToCatalog \/ CallAddCatalog \/ CallSubCatalog
    \/ CallCompareCatalog \/ CallMul \/ CallDiv \/ CallCorrespondingUnit
    \/ CallExchangeRate
    \/ CallAddUnitNew \/ CallRemoveUnitNew \/ CallAddDimensionConversionAny
    \/ CallRemoveSubstanceAny
SpecCatalog == InitCatalog /\ [][NextCatalog]_vars

\* every transformation of a quantity
CallToAny == CallTo(FrameArgs)
NextFrame ==
    \/ ConstructTagged \/ CallToAny
    \/ CallAdd \/ CallSub \/ CallMulTagged \/ CallDivTagged
SpecFrame == InitTagged /\ [][NextFrame]_vars

Init == InitFrom(MoneyQuantities \cup FuelQuantities \cup ArithQuantities)
Next ==
    \/ NextMoney \/ NextFuel \/ NextArith
    \/ CallInflationFactor \/ CallExchangeRate \/ CallToYearAgain
    \/ CallCorrespondingUnit \/ CallDetectCurrency \/ CallToProduct
    \/ ConstructDated \/ ConstructPrices \/ CallToPrice
    \/ CallAddUnitAny \/ CallAddUnitWithReferenceAny \/ CallRemoveUnitAny
    \/ CallAddCorrespondingUnitAny \/ CallValidateRegistry
    \/ ConstructCatalog \/ CallToCatalog \/ CallAddCatalog \/ CallSubCatalog
    \/ CallCompareCatalog \/ CallAddUnitNew \/ CallRemoveUnitNew
    \/ CallAddDimensionConversionAny \/ CallRemoveSubstanceAny
    \/ ConstructMixed \/ CallToMixed \/ CallAddMixed \/ CallSubMixed \/ CallCompareMixed
    \/ CallToUnit \/ CallToBack
    \/ CallAdd \/ CallSub
    \/ CallMulTagged \/ CallDivTagged \/ CallToAny
Spec == Init /\ [][Next]_vars

(***************************************************************************)
(* Properties.                                                             *)
(***************************************************************************)
IsTo == op.name = "to"

\* a to() call given the target unit and/or the reference year only
IsUnitYearCall == IsTo /\ op.basis = None /\ op.substance = None

\* q.to(reference_year=Y).to(target)
TwoStep(q, target_unit, reference_year) ==
    LET inflated == To(q, None, None, None, reference_year)
    IN  IF ~inflated.ok THEN QErr ELSE To(inflated, target_unit, None, None, None)

\* value * inflation(A, y0 -> Y) * rate(A, Y) / rate(B, Y)
InflatedThenExchanged(q, target_unit, reference_year) ==
    LET A == exchange_detect_currency_from_unit(q.unit)[1]
        B == exchange_detect_currency_from_unit(target_unit[1])[1]
        inflation == get_cumulative_inflation_factor(A, q.reference_year[1], reference_year[1])
        exchange == RDiv(get_exchange_rate(A, reference_year), get_exchange_rate(B, reference_year))
    IN  VScale(VScale(q.value, inflation), exchange)

\* C1: a to() call that changes both the currency and the reference year
\* returns what q.to(reference_year=Y).to(target) returns, and when it
\* succeeds its value is the receiver's value inflated in the source currency
\* to year Y and then converted at the exchange rate of year Y.
C1_OneStepEqualsTwoStep ==
    (IsUnitYearCall /\ is_currency_conversion(a, op.target_unit)
        /\ is_year_change(a, op.reference_year))
    => /\ res = TwoStep(a, op.target_unit, op.reference_year)
       /\ res.ok => /\ res.value = InflatedThenExchanged(a, op.target_unit, op.reference_year)
                    /\ res.unit = op.target_unit[1]
                    /\ res.reference_year = op.reference_year

C1_Witness ==
    /\ IsUnitYearCall
    /\ is_currency_conversion(a, op.target_unit)
    /\ is_year_change(a, op.reference_year)
    /\ res.ok
    /\ a.unit = "EUR/MWh"
    /\ res.unit = "USD/MWh"
    /\ res.value # a.value

\* the standard order of the last two steps: unit conversion, then inflation
StandardOrder(q, target_unit, basis, substance, reference_year) ==
    LET result == AfterBasis(q, basis, substance)
    IN  IF ~result.ok THEN QErr
        ELSE ConvertThenInflate(result, target_unit, reference_year)

BothChanges == is_currency_conversion(a, op.target_unit) /\ is_year_change(a, op.reference_year)

IsInflationCall == op.name = "get_cumulative_inflation_factor"

\* the years of the half-open interval between the two years
YearsBetween(from_year, to_year) ==
    IF from_year < to_year THEN (from_year + 1)..to_year ELSE (to_year + 1)..from_year

RECURSIVE ProductOfRates(_, _)
ProductOfRates(currency, years) ==
    IF years = {} THEN ROne
    ELSE LET y == CHOOSE y \in years : TRUE
         IN  RMul(Rat(10000 + _inflation_data[currency][y], 10000),
                  ProductOfRates(currency, years \ {y}))

IsMul == op.name = "mul"
IsDiv == op.name = "truediv"
IsDivProduct == op.name = "mul_truediv"

\* the value of q expressed in another unit of its dimension
ValueIn(q, unit) == VScale(q.value, get_conversion_factor(q.unit, unit))

EnergyOverTime == IsDiv /\ a.dimension = "ENERGY" /\ op.other.dimension = "TIME"

\* C3: an energy quantity divided by a time quantity is a power quantity whose
\* value, in MW, is the energy in MWh divided by the duration in h, for every
\* energy unit and every time unit.
C3_EnergyOverTimeIsPower ==
    EnergyOverTime =>
        /\ res.ok
        /\ res.dimension = "POWER"
        /\ ValueIn(res, "MW") = VDiv(ValueIn(a, "MWh"), ValueIn(op.other, "h"))

MWTimesH == a.unit = "MW" /\ op.other.unit = "h"

\* C4: Quantity(x, "MW") * Quantity(t, "h") has unit "MWh" and value x*t;
\* dividing the product by the time operand gives x with unit "MW" and
\* dividing it by the power operand gives t with unit "h".
C4_ProductRecoversOperands ==
    /\ (IsMul /\ MWTimesH) =>
           /\ res.ok
           /\ res.unit = "MWh"
           /\ res.value = VMul(a.value, op.other.value)
    /\ (IsDivProduct /\ MWTimesH /\ op.by = "other") =>
           /\ res.ok
           /\ res.unit = "MW"
           /\ res.value = a.value
    /\ (IsDivProduct /\ MWTimesH /\ op.by = "self") =>
           /\ res.ok
           /\ res.unit = "h"
           /\ \A i \in DOMAIN res.value.data : res.value.data[i] = op.other.value.data[1]

\* x has a compound unit N/D and y has the dimension of D but another unit
DenominatorMatches(x, y) ==
    /\ HasSlash(x.unit)
    /\ y.dimension = get_dimension(SplitDen(x.unit))
    /\ y.unit # SplitDen(x.unit)

\* the product the cancellation is to give: unit N, value(N/D) times the
\* value of y expressed in D
Cancelled(x, y) ==
    /\ res.ok
    /\ res.unit = SplitNum(x.unit)
    /\ res.value = VMul(x.value, ValueIn(y, SplitDen(x.unit)))

\* C5: when one operand of * has a compound unit N/D and the other has the
\* dimension of D but a different unit, the product has unit N and the value
\* of the compound operand times the other operand's value expressed in D,
\* whichever of the two operands is on the left.
C5_DenominatorCancelsEitherOrder ==
    IsMul => /\ DenominatorMatches(a, op.other) => Cancelled(a, op.other)
             /\ DenominatorMatches(op.other, a) => Cancelled(op.other, a)

\* neither operand's unit is cancelled or converted by the other
NoCancellation(x, y) ==
    /\ ~(HasSlash(x.unit) /\ StrIn(y.unit, x.unit))
    /\ ~(HasSlash(y.unit) /\ StrIn(x.unit, y.unit))
    /\ ~DenominatorMatches(x, y)
    /\ ~DenominatorMatches(y, x)

\* C6: multiplying two quantities with no multiplication rule and no
\* cancellation returns unit "u1.u2" (joined by a middle dot) and value v1*v2;
\* dividing two quantities with no division rule and different units returns
\* unit "u1/u2" and value v1/v2.
C6_LiteralCompoundUnits ==
    /\ (IsMul /\ get_multiplication_result(a.dimension, op.other.dimension) = None
              /\ NoCancellation(a, op.other)) =>
           /\ res.ok
           /\ res.unit = a.unit \o "·" \o op.other.unit
           /\ res.value = VMul(a.value, op.other.value)
    /\ (IsDiv /\ get_division_result(a.dimension, op.other.dimension) = None
              /\ a.unit # op.other.unit) =>
           /\ res.ok
           /\ res.unit = a.unit \o "/" \o op.other.unit
           /\ res.value = VDiv(a.value, op.other.value)


(***************************************************************************)
(* Fuels: heating values and combustion products.                          *)
(***************************************************************************)
\* a substance of the table with both heating values
IsFuel(s) ==
    /\ s # None
    /\ s[1] \in DOMAIN _substances
    /\ ~IsRErr(_substances[s[1]].hhv)
    /\ ~IsRErr(_substances[s[1]].lhv)

\* a mass of a fuel converted to an energy unit, with or without a basis
MassToEnergyCall ==
    /\ IsTo
    /\ a.dimension = "MASS"
    /\ IsFuel(a.substance)
    /\ op.substance = None
    /\ op.target_unit # None
    /\ get_dimension(op.target_unit[1]) = "ENERGY"
    /\ op.basis \in {None, Some("HHV"), Some("LHV")}

\* the basis of the call, else the one the quantity carries, else LHV
RequestedBasis ==
    IF op.basis # None THEN op.basis[1]
    ELSE IF a.basis # None THEN a.basis[1]
    ELSE "LHV"

\* the heating value in MWh/t
HeatingValueMwhT(s, b) ==
    RMul(IF b = "HHV" THEN _substances[s].hhv ELSE _substances[s].lhv, Rat(2778, 10000))

\* C7: a mass of a combustible substance converted to an energy unit gives
\* mass x heating_value(substance, basis), LHV when no basis is given; the
\* single call q.to(energy_unit, basis=B) gives mass x heating_value(substance,
\* B) whatever basis the mass quantity carried.
C7_MassTimesHeatingValue ==
    MassToEnergyCall =>
        /\ res.ok
        /\ res.unit = op.target_unit[1]
        /\ ValueIn(res, "MWh")
               = VScale(ValueIn(a, "t"), HeatingValueMwhT(a.substance[1], RequestedBasis))

\* to(substance=P) with no other argument
IsSubstanceCall ==
    /\ IsTo
    /\ op.substance # None
    /\ op.target_unit = None
    /\ op.basis = None
    /\ op.reference_year = None

CombustionProducts == {"CO2", "H2O", "ash"}

\* the fuel mass in tonnes: the mass itself, or what to("t") makes of an
\* energy or a volume of the fuel
MassInTonnes(q) == IF q.dimension = "MASS" THEN ValueIn(q, "t") ELSE ToUnit(q, "t").value

ProductMass(q, product) ==
    LET s == _substances[q.substance[1]]
    IN  IF product = "CO2"
        THEN VScale(VScale(MassInTonnes(q), s.carbon_content), Rat(44, 12))
        ELSE IF product = "H2O"
        THEN VScale(VScale(MassInTonnes(q), s.hydrogen_content), Rat(18, 2))
        ELSE VScale(MassInTonnes(q), s.ash_content)

FuelToProduct ==
    (IsFuel(a.substance) /\ op.substance[1] \in CombustionProducts) =>
        /\ res.ok
        /\ res.unit = "t"
        /\ res.substance = op.substance
        /\ res.value = ProductMass(a, op.substance[1])

\* C8 as stated: for a fuel and a target P in {CO2, H2O, ash}, to(substance=P)
\* returns, in t and with substance P, the fuel mass in tonnes times carbon x
\* 44/12, hydrogen x 18/2 or ash; every target outside the set and every
\* source without substance is rejected.
C8_ProductsAndRejections ==
    IsSubstanceCall =>
        /\ FuelToProduct
        /\ op.substance[1] \notin CombustionProducts => ~res.ok
        /\ a.substance = None => ~res.ok

\* C8 amended: as above, but a target outside the set is rejected when it
\* differs from the substance the quantity already has; naming the quantity's
\* own substance is not a conversion and returns the quantity unchanged.
C8_ProductsAndRejectionsOfOtherTargets ==
    IsSubstanceCall =>
        /\ FuelToProduct
        /\ (op.substance[1] \notin CombustionProducts /\ op.substance # a.substance)
               => ~res.ok
        /\ op.substance = a.substance => res = a
        /\ a.substance = None => ~res.ok

C8_Witness ==
    /\ IsSubstanceCall
    /\ a.substance = Some("lignite")
    /\ a.unit = "kg"
    /\ op.substance = Some("CO2")
    /\ res.ok
    /\ res.unit = "t"
    /\ ~VAllZero(res.value)

\* a substance of the table whose heating values are both absent
NonCombustible(s) ==
    /\ s # None
    /\ s[1] \in DOMAIN _substances
    /\ IsRErr(_substances[s[1]].hhv)
    /\ IsRErr(_substances[s[1]].lhv)

IsToTo == op.name = "to_to"

\* only the reference year is given
YearOnly(call) ==
    /\ call.target_unit = None
    /\ call.basis = None
    /\ call.substance = None
    /\ call.reference_year # None

\* the years that have a rate in the series of the quantity's currency
YearsWithData(q) ==
    LET currency == inflation_detect_currency_from_unit(q.unit)
    IN  IF currency = None THEN {} ELSE DOMAIN _inflation_data[currency[1]]

\* C11: for years A, B, C that have data, in any order, a quantity of
\* reference year A adjusted to B succeeds, adjusted to B and then to C it has
\* the value and reference year of the quantity adjusted from A to C directly,
\* and adjusted to B and back to A it has its original value.
C11_InflationTransitiveInvertible ==
    /\ (IsTo /\ YearOnly(op) /\ a.reference_year # None
            /\ {a.reference_year[1], op.reference_year[1]} \subseteq YearsWithData(a))
       => res.ok
    /\ (IsToTo /\ YearOnly(op.first) /\ YearOnly(op) /\ a.reference_year # None
            /\ {a.reference_year[1], op.first.reference_year[1], op.reference_year[1]}
                   \subseteq YearsWithData(a))
       => /\ res.ok
          /\ res = To(a, None, None, None, op.reference_year)
          /\ res.reference_year = op.reference_year
          /\ op.reference_year = a.reference_year => res.value = a.value

C11_Witness ==
    /\ IsToTo
    /\ a.unit = "EUR/MWh"
    /\ a.reference_year = Some(2020)
    /\ op.first.reference_year = Some(2022)
    /\ op.reference_year = Some(2021)
    /\ res.ok
    /\ res.value = VScale(a.value, Rat(10260, 10000))

(***************************************************************************)
(* C12: years outside a currency's series.                                 *)
(***************************************************************************)
IsExchangeCall == op.name = "get_exchange_rate"

\* the years for which the currency has an inflation rate
InflationYears(currency) ==
    IF currency \in DOMAIN _inflation_data THEN DOMAIN _inflation_data[currency] ELSE {}

\* the years for which the currency has an exchange rate
ExchangeYears(currency) ==
    IF currency \in DOMAIN _exchange_rate_data THEN DOMAIN _exchange_rate_data[currency]
    ELSE {}

\* C12: get_cumulative_inflation_factor raises whenever from_year or to_year
\* is not a year with an inflation rate for the currency, equal years
\* included, and get_exchange_rate raises whenever the requested year has no
\* rate for a currency other than USD.
C12_YearOutsideSeriesRaises ==
    /\ (IsInflationCall
            /\ ~ ({op.from_year, op.to_year} \subseteq InflationYears(op.currency)))
       => IsRErr(res)
    /\ (IsExchangeCall /\ op.currency # "USD" /\ op.year # None
            /\ op.year[1] \notin ExchangeYears(op.currency))
       => IsRErr(res)

\* the exchange-rate half on its own: a year without a rate raises
C12_ExchangeYearOutsideSeriesRaises ==
    (IsExchangeCall /\ op.currency # "USD" /\ op.year # None
        /\ op.year[1] \notin ExchangeYears(op.currency))
    => IsRErr(res)

\* equal years outside the series: the factor 1 is returned, nothing raised
C12_EqualYearsOutsideSeries ==
    /\ IsInflationCall
    /\ op.currency = "USD"
    /\ op.from_year = op.to_year
    /\ op.from_year \notin InflationYears("USD")
    /\ res = ROne

(***************************************************************************)
(* C13: currency conversion at the quantity's reference year.              *)
(***************************************************************************)
\* the currency code a price unit starts with
CurrencyOf(unit) == IF HasSlash(unit) THEN SplitNum(unit) ELSE unit

\* 1 unit of currency in USD in year y
RateIn(currency, y) == IF currency = "USD" THEN ROne ELSE _exchange_rate_data[currency][y]

\* the year whose rates apply: the reference year, else the most recent one
RateYear(q, currency) ==
    IF q.reference_year # None THEN q.reference_year[1]
    ELSE SetMax(DOMAIN _exchange_rate_data[currency])

\* to(target_unit) between two currencies in the same dimension, with no
\* basis or substance argument and no change of reference year
CurrencyOnlyCall ==
    /\ IsTo
    /\ op.target_unit # None
    /\ op.basis = None /\ op.substance = None
    /\ op.reference_year \in {None, a.reference_year}
    /\ get_dimension(op.target_unit[1]) = a.dimension
    /\ CurrencyOf(a.unit) # CurrencyOf(op.target_unit[1])

\* C13: a currency conversion that does not change the reference year
\* multiplies the value by rate(from, y) / rate(to, y), where y is the
\* quantity's reference year or, without one, the most recent year with
\* data; USD has rate 1; the result keeps the quantity's reference year.
C13_CurrencyConversionAtReferenceYear ==
    CurrencyOnlyCall =>
        LET from_currency == CurrencyOf(a.unit)
            to_currency == CurrencyOf(op.target_unit[1])
            rate_from == RateIn(from_currency,
                                RateYear(a, IF from_currency = "USD" THEN to_currency
                                            ELSE from_currency))
            rate_to == RateIn(to_currency,
                              RateYear(a, IF to_currency = "USD" THEN from_currency
                                          ELSE to_currency))
        IN  /\ res.ok
            /\ res.unit = op.target_unit[1]
            /\ res.value = VScale(a.value, RDiv(rate_from, rate_to))
            /\ res.reference_year = a.reference_year

C13_Witness ==
    /\ CurrencyOnlyCall
    /\ a.unit = "EUR"
    /\ a.reference_year = Some(2020)
    /\ op.target_unit = Some("GBP")
    /\ res.ok
    /\ res.value = VScale(a.value, Frac(11, 13))
    /\ res.reference_year = Some(2020)

\* without a reference year the most recent rates apply
C13_WitnessMostRecent ==
    /\ CurrencyOnlyCall
    /\ a.unit = "EUR"
    /\ a.reference_year = None
    /\ op.target_unit = Some("USD")
    /\ res.ok
    /\ res.value = VScale(a.value, Frac(21, 20))

(***************************************************************************)
(* C14: unit conversion there and back.                                    *)
(***************************************************************************)
\* to(V) with no other argument
UnitOnly(call) ==
    /\ call.target_unit # None
    /\ call.basis = None /\ call.substance = None /\ call.reference_year = None

\* q.to(V).to(U) where U is q's unit and q.to(V) succeeded
RoundTrip ==
    /\ IsToTo
    /\ UnitOnly(op.first) /\ UnitOnly(op)
    /\ op.target_unit = Some(a.unit)

\* C14: for a quantity q in unit U and a unit V that q converts to,
\* q.to(V).to(U) succeeds and has unit U, q's substance, q's basis and q's
\* value.
C14_RoundTrip ==
    RoundTrip =>
        /\ res.ok
        /\ res.unit = a.unit
        /\ res.substance = a.substance
        /\ res.basis = a.basis
        /\ res.value = a.value

\* a mass of fuel on the HHV basis to energy and back
C14_Witness ==
    /\ RoundTrip
    /\ a.unit = "kg"
    /\ a.substance = Some("lignite")
    /\ a.basis = Some("HHV")
    /\ op.first.target_unit = Some("MWh")
    /\ res.ok
    /\ res.value = a.value

\* a compound unit to a simple one and back
C14_WitnessCompound ==
    /\ RoundTrip
    /\ a.unit = "MWh/h"
    /\ op.first.target_unit = Some("kW")
    /\ res.ok
    /\ res.value = a.value

\* one currency to another and back
C14_WitnessCurrency ==
    /\ RoundTrip
    /\ a.unit = "EUR/MWh"
    /\ a.reference_year = Some(2021)
    /\ op.first.target_unit = Some("USD/MWh")
    /\ res.ok
    /\ res.value = a.value

(***************************************************************************)
(* C15: addition and subtraction.                                          *)
(***************************************************************************)
IsAdd == op.name = "add"
IsSub == op.name = "sub"

\* b's value in a's unit
ConvertedValue(q, other) == _convert_unit(other, q.unit, None).value

\* b converts into a's unit
Convertible(q, other) ==
    other.unit = q.unit \/ _convert_unit(other, q.unit, None).ok

C15_WitnessKept ==
    /\ IsAdd
    /\ a.unit = "MWh" /\ a.substance = Some("lignite") /\ a.basis = Some("HHV")
    /\ op.other.unit = "MWh" /\ op.other.substance = Some("lignite")
    /\ op.other.basis = Some("HHV")
    /\ res.ok
    /\ res.substance = Some("lignite") /\ res.basis = Some("HHV")
    /\ warnings = 0

(***************************************************************************)
(* C16: the metadata of products and quotients.                            *)
(***************************************************************************)
\* the one of x and y that is set, when exactly one is
TheDefinedOne(x, y) == IF x = None THEN y ELSE x

\* C16: a * b and a / b have the common substance if the two are equal, the
\* defined one if exactly one operand has a substance and none if the two
\* differ; the basis and the reference year are kept only if both operands
\* have the same one, so a reference year on one operand only is cleared.
C16_ProductMetadata ==
    ((IsMul \/ IsDiv) /\ res.ok) =>
        LET b == op.other
        IN  /\ a.substance = b.substance => res.substance = a.substance
            /\ (a.substance = None) # (b.substance = None)
                   => res.substance = TheDefinedOne(a.substance, b.substance)
            /\ (a.substance # None /\ b.substance # None /\ a.substance # b.substance)
                   => res.substance = None
            /\ res.basis = (IF a.basis = b.basis THEN a.basis ELSE None)
            /\ res.reference_year =
                   (IF a.reference_year = b.reference_year THEN a.reference_year ELSE None)

\* a price of lignite in 2020 times a mass without metadata: the substance
\* is adopted, the reference year cleared
C16_Witness ==
    /\ IsMul
    /\ a.unit = "USD/t" /\ a.substance = Some("lignite") /\ a.basis = Some("LHV")
    /\ a.reference_year = Some(2020)
    /\ op.other.unit = "t" /\ op.other.substance = None /\ op.other.basis = Some("LHV")
    /\ op.other.reference_year = None
    /\ res.ok
    /\ res.unit = "USD"
    /\ res.substance = Some("lignite")
    /\ res.basis = Some("LHV")
    /\ res.reference_year = None

\* a quotient of two different substances in the same year
C16_WitnessQuotient ==
    /\ IsDiv
    /\ a.substance = Some("lignite") /\ op.other.substance = Some("natural_gas")
    /\ a.reference_year = Some(2021) /\ op.other.reference_year = Some(2021)
    /\ res.ok
    /\ res.substance = None
    /\ res.reference_year = Some(2021)

(***************************************************************************)
(* C17: immutability.                                                      *)
(***************************************************************************)
\* a call that returned a Quantity
Transformed ==
    /\ op.name \in {"to", "add", "sub", "mul", "truediv"}
    /\ res.ok

\* to() without any argument
NoArguments ==
    /\ IsTo
    /\ op.target_unit = None /\ op.basis = None
    /\ op.substance = None /\ op.reference_year = None

\* to() asked only for the substance and/or the basis the receiver has
OwnSubstanceOrBasisOnly ==
    /\ IsTo
    /\ op.target_unit = None /\ op.reference_year = None
    /\ op.substance \in {None, a.substance}
    /\ op.basis \in {None, a.basis}
    /\ ~NoArguments

\* a step that is a call leaves the receiver as it was
OperandsUnchanged == (op' # NoCall) => (a' = a)

\* C17: every transformation (to with any arguments, +, -, *, /) leaves the
\* fields of its operands unchanged and returns a new Quantity instance,
\* distinct from its operands; to() with no arguments returns a new
\* Quantity equal to the receiver in all fields.
C17_AlwaysNewInstance ==
    [][/\ OperandsUnchanged
       /\ (Transformed => returned = "new")'
       /\ (NoArguments => (res = a /\ returned = "new"))']_vars

\* C17 as the code has it: every transformation leaves the fields of its
\* operands unchanged and returns a new instance, except that to() asked
\* only for the substance and/or basis the receiver already has returns the
\* receiver itself; to() with no arguments returns a new Quantity equal to
\* the receiver in all fields.
C17_NewInstanceUnlessNothingToConvert ==
    [][/\ OperandsUnchanged
       /\ (Transformed /\ ~OwnSubstanceOrBasisOnly => returned = "new")'
       /\ (Transformed /\ OwnSubstanceOrBasisOnly => returned = "a" /\ res = a)'
       /\ (NoArguments => (res = a /\ returned = "new"))']_vars

\* to() with no arguments on a quantity with every field set
C17_Witness ==
    /\ NoArguments
    /\ a.substance = Some("lignite") /\ a.basis = Some("HHV")
    /\ a.reference_year = Some(2020)
    /\ res = a
    /\ returned = "new"

\* to(basis="HHV", substance="lignite") on HHV lignite returns the receiver
C17_WitnessReceiver ==
    /\ IsTo
    /\ a.substance = Some("lignite") /\ a.basis = Some("HHV")
    /\ op.substance = Some("lignite") /\ op.basis = Some("HHV")
    /\ op.target_unit = None
    /\ returned = "a"

\* a sum is a new instance
C17_WitnessSum ==
    /\ IsAdd
    /\ res.ok
    /\ returned = "new"

(***************************************************************************)
(* C18: conversion between the heating-value bases.                        *)
(***************************************************************************)
\* to(basis=B) with no other argument
BasisOnlyCall ==
    /\ IsTo
    /\ op.basis # None
    /\ op.target_unit = None /\ op.substance = None /\ op.reference_year = None

\* the basis a quantity counts as having
CurrentBasis(q) == IF q.basis = None THEN "LHV" ELSE q.basis[1]

\* lhv / hhv of the substance's table entry
LhvOverHhv(s) == RDiv(_substances[s].lhv, _substances[s].hhv)

\* what to(basis=B) gives for a quantity whose substance has heating values
BasisConverted ==
    /\ res.unit = a.unit
    /\ res.substance = a.substance
    /\ res.reference_year = a.reference_year
    /\ res.basis = op.basis
    /\ CurrentBasis(a) = op.basis[1] => res.value = a.value
    /\ (CurrentBasis(a) = "HHV" /\ op.basis[1] = "LHV")
           => res.value = VScale(a.value, LhvOverHhv(a.substance[1]))
    /\ (CurrentBasis(a) = "LHV" /\ op.basis[1] = "HHV")
           => /\ res.value = VUnscale(a.value, LhvOverHhv(a.substance[1]))
              /\ To(res, None, Some("LHV"), None, None).value = a.value
    /\ (CurrentBasis(a) = "HHV" /\ op.basis[1] = "LHV")
           => To(res, None, Some("HHV"), None, None).value = a.value

\* C18: to(basis=B) fails unless B is HHV or LHV and the quantity has a
\* substance; HHV to LHV multiplies the value by lhv/hhv, LHV to HHV divides
\* by it (no basis counts as LHV), so there and back restores the value;
\* the current basis leaves the value unchanged and labels the result; unit,
\* substance and reference_year are unchanged.
C18_BasisConversion ==
    BasisOnlyCall =>
        /\ (op.basis[1] \notin {"HHV", "LHV"} \/ a.substance = None) => ~res.ok
        /\ res.ok => BasisConverted

\* the same for the calls that name another basis than the one the
\* quantity carries
C18_BasisConversionToAnotherBasis ==
    (BasisOnlyCall /\ op.basis # a.basis) =>
        /\ (op.basis[1] \notin {"HHV", "LHV"} \/ a.substance = None) => ~res.ok
        /\ res.ok => BasisConverted

\* HHV lignite to LHV: 14/15 of the value
C18_WitnessScaled ==
    /\ BasisOnlyCall
    /\ a.substance = Some("lignite") /\ a.basis = Some("HHV")
    /\ op.basis = Some("LHV")
    /\ res.ok
    /\ res.value = VScale(a.value, Frac(14, 15))
    /\ res.basis = Some("LHV")

\* a quantity without substance asked for the basis it carries: no failure
C18_NoSubstanceAccepted ==
    /\ BasisOnlyCall
    /\ a.substance = None
    /\ op.basis = a.basis
    /\ res.ok

(***************************************************************************)
(* C19: units without a corresponding unit.                                *)
(***************************************************************************)
IsCorrespondingCall == op.name = "get_corresponding_unit"

\* the unit has an entry in the unit-pair table that lies in the dimension
HasCorrespondence(unit, dimension) ==
    /\ unit \in DOMAIN _corresponding_units
    /\ get_dimension(_corresponding_units[unit]) = dimension

\* a power quantity in a simple unit times a time quantity, in either order
PowerTimesTime ==
    /\ IsMul
    /\ {a.dimension, op.other.dimension} = {"POWER", "TIME"}
    /\ ~HasSlash(a.unit) /\ ~HasSlash(op.other.unit)

PowerOperand == IF a.dimension = "POWER" THEN a ELSE op.other

\* C19: get_corresponding_unit raises when the unit has no entry of the
\* unit-pair table in the target dimension; so power times time and energy
\* over time raise for a unit without correspondence and never take a
\* default unit such as MW or MWh instead.
C19_NoCorrespondenceRaises ==
    /\ (IsCorrespondingCall /\ ~HasCorrespondence(op.unit, op.target_dimension))
           => res = ValueError
    /\ (EnergyOverTime /\ ~HasCorrespondence(a.unit, "POWER")) => ~res.ok
    /\ (PowerTimesTime /\ ~HasCorrespondence(PowerOperand.unit, "ENERGY")) => ~res.ok

\* GJ has no corresponding power unit, yet the lookup answers MW
C19_DefaultUnitReturned ==
    /\ IsCorrespondingCall
    /\ op.unit = "GJ" /\ op.target_dimension = "POWER"
    /\ res = "MW"

\* and GJ / h is a quantity in MW
C19_DefaultUnitInQuotient ==
    /\ IsDiv
    /\ a.unit = "GJ" /\ op.other.unit = "h"
    /\ res.ok
    /\ res.unit = "MW"

(***************************************************************************)
(* C20: the currency of a unit string.                                     *)
(***************************************************************************)
IsDetectCall == op.name = "detect_currency_from_unit"

\* the components of a unit string split on "/"
RECURSIVE Components(_)
Components(unit) ==
    IF HasSlash(unit) THEN {SplitNum(unit)} \cup Components(SplitDen(unit)) ELSE {unit}

\* the currency codes a registry knows, in the order it tries them
KnownCodes(registry) ==
    IF registry = "inflation" THEN InflationCurrencies ELSE get_supported_currencies

CodeSet(registry) == {KnownCodes(registry)[i] : i \in DOMAIN KnownCodes(registry)}

\* the "$" / "dollar" fallback
DollarFallback(unit) == StrIn("$", unit) \/ StrIn("DOLLAR", Upper(unit))

\* C20: detect_currency_from_unit returns C only when a component of the
\* unit string split on "/" is exactly the currency code C, or USD by the
\* "$" / "dollar" fallback, and None otherwise; a code that is only a
\* substring of a component, or written in another letter case, is not
\* detected.
C20_ExactComponentMatch ==
    IsDetectCall =>
        LET exact == CodeSet(op.registry) \cap Components(op.unit)
        IN  IF exact # {} THEN res \in {Some(c) : c \in exact}
            ELSE IF DollarFallback(op.unit) THEN res = Some("USD")
            ELSE res = None

\* the codes that occur anywhere in the upper-cased unit string
Occurring(registry, unit) == {c \in CodeSet(registry) : StrIn(c, Upper(unit))}

\* the first of them in the registry's order
FirstOccurring(registry, unit) ==
    LET codes == KnownCodes(registry)
        i == CHOOSE i \in DOMAIN codes :
                /\ codes[i] \in Occurring(registry, unit)
                /\ \A j \in 1..(i - 1) : codes[j] \notin Occurring(registry, unit)
    IN  codes[i]

\* C20 as the code has it: detect_currency_from_unit returns C only when C
\* is the first known currency code, in the registry's order, that occurs
\* in the upper-cased unit string, or USD by the "$" / "dollar" fallback
\* when no code occurs, and None otherwise; a unit with a component that is
\* exactly a code is detected, and so is one that holds a code as a
\* substring of a component or in another letter case.
C20_SubstringOfUpperCasedUnit ==
    IsDetectCall =>
        /\ IF Occurring(op.registry, op.unit) # {}
           THEN res = Some(FirstOccurring(op.registry, op.unit))
           ELSE IF DollarFallback(op.unit) THEN res = Some("USD")
           ELSE res = None
        /\ CodeSet(op.registry) \cap Components(op.unit) # {} => res # None

\* a lower-case code inside a compound unit is detected
C20_Witness ==
    /\ IsDetectCall
    /\ op.registry = "exchange_rate"
    /\ op.unit = "eur/MWh"
    /\ res = Some("EUR")

\* a code inside a longer component
C20_WitnessSubstring ==
    /\ IsDetectCall
    /\ op.unit = "kUSD/t"
    /\ res = Some("USD")

\* no code and no dollar sign
C20_WitnessNone ==
    /\ IsDetectCall
    /\ op.unit = "US/D"
    /\ res = None

(***************************************************************************)
(* C22: basis and substance in one call and in two.                        *)
(***************************************************************************)
\* q.to(basis=B).to(substance=P) with B in {HHV, LHV} on a fuel
BasisThenProduct ==
    /\ IsToTo
    /\ IsFuel(a.substance)
    /\ op.first.basis \in {Some("HHV"), Some("LHV")}
    /\ op.first.target_unit = None /\ op.first.substance = None
    /\ op.first.reference_year = None
    /\ op.target_unit = None /\ op.basis = None /\ op.reference_year = None
    /\ op.substance # None

\* q.to(basis=B, substance=P) for the B and P of the two calls
SingleCall == To(a, None, op.first.basis, op.substance, None)

\* C22: for a fuel quantity q, a basis B in {HHV, LHV} and a product P in
\* {CO2, H2O, ash}, q.to(basis=B, substance=P) has the value, unit and
\* substance of q.to(basis=B).to(substance=P).
C22_OneCallEqualsTwo ==
    BasisThenProduct =>
        /\ res.ok
        /\ SingleCall.ok
        /\ SingleCall.value = res.value
        /\ SingleCall.unit = res.unit
        /\ SingleCall.substance = res.substance

\* the same for the basis the product can be labelled with
C22_OneCallEqualsTwoOnLHV ==
    (BasisThenProduct /\ op.first.basis = Some("LHV") /\ a.dimension = "ENERGY") =>
        /\ res.ok
        /\ SingleCall.ok
        /\ SingleCall.value = res.value
        /\ SingleCall.unit = res.unit
        /\ SingleCall.substance = res.substance

\* the two-step conversion to HHV and CO2 succeeds, the single call raises
C22_SingleCallRaises ==
    /\ BasisThenProduct
    /\ a.unit = "MWh" /\ a.substance = Some("natural_gas") /\ a.basis = Some("LHV")
    /\ op.first.basis = Some("HHV")
    /\ op.substance = Some("CO2")
    /\ res.ok
    /\ ~SingleCall.ok

(***************************************************************************)
(* C24: the reference year across to() without reference_year.             *)
(***************************************************************************)
\* a successful to() that was not given a reference_year
ToWithoutYear == IsTo /\ res.ok /\ op.reference_year = None

\* C24: a to() call without reference_year returns a quantity with the
\* receiver's reference_year, whichever of the unit, basis and substance
\* conversions it performs, for every source substance.
C24_ReferenceYearKept ==
    ToWithoutYear => res.reference_year = a.reference_year

\* the same for every source substance that is not a renewable
C24_ReferenceYearKeptByFuels ==
    (ToWithoutYear /\ ~(a.substance # None /\ a.substance[1] \in Renewables)) =>
        res.reference_year = a.reference_year

\* a lignite quantity of 2020 converted to CO2 is still of 2020
C24_WitnessFuel ==
    /\ ToWithoutYear
    /\ a.substance = Some("lignite") /\ a.reference_year = Some(2020)
    /\ op.substance = Some("CO2")
    /\ res.substance = Some("CO2") /\ res.reference_year = Some(2020)

\* a wind quantity of 2020 converted to CO2 has no reference year
C24_YearLostByRenewable ==
    /\ ToWithoutYear
    /\ a.substance = Some("wind") /\ a.reference_year = Some(2020)
    /\ op.substance = Some("CO2")
    /\ res.substance = Some("CO2") /\ res.reference_year = None

(***************************************************************************)
(* C25: when a product cancels a compound unit.                            *)
(***************************************************************************)
\* a compound quantity N/D times a quantity with a simple unit
CompoundTimesSimple ==
    IsMul /\ res.ok /\ HasSlash(a.unit) /\ ~HasSlash(op.other.unit)

\* the other operand's unit after the denominator normalization
NormalizedUnit == other_converted(a, op.other).unit

\* C25: the product of N/D and another quantity has unit N only when the
\* other operand's unit, after the denominator normalization, is exactly D;
\* a unit that is a substring of the text N/D or equals N does not cancel.
C25_CancelsOnlyDenominator ==
    (CompoundTimesSimple /\ NormalizedUnit # SplitDen(a.unit)) =>
        res.unit # SplitNum(a.unit)

\* the other direction: a normalized unit equal to D cancels down to N
C25_DenominatorCancels ==
    (CompoundTimesSimple /\ NormalizedUnit = SplitDen(a.unit)) =>
        res.unit = SplitNum(a.unit)

\* USD/MWh times kWh: normalized to MWh and cancelled
C25_WitnessNormalized ==
    /\ CompoundTimesSimple
    /\ a.unit = "USD/MWh" /\ op.other.unit = "kWh"
    /\ NormalizedUnit = "MWh" /\ res.unit = "USD"

\* USD/MWh times MW: a power is not the denominator, yet the unit is USD
C25_SubstringCancels ==
    /\ CompoundTimesSimple
    /\ a.unit = "USD/MWh" /\ op.other.unit = "MW"
    /\ NormalizedUnit = "MW" /\ res.unit = "USD"

\* USD/t times USD: the numerator is not the denominator, yet the unit is USD
C25_NumeratorCancels ==
    /\ CompoundTimesSimple
    /\ a.unit = "USD/t" /\ op.other.unit = "USD"
    /\ res.unit = "USD"

(***************************************************************************)
(* C26: power times time.                                                  *)
(***************************************************************************)
\* a product of a power quantity and a time quantity, in either order
PowerAndTime ==
    /\ IsMul
    /\ \/ a.dimension = "POWER" /\ op.other.dimension = "TIME"
       \/ a.dimension = "TIME" /\ op.other.dimension = "POWER"

TimeOperand == IF a.dimension = "TIME" THEN a ELSE op.other

\* C26: the product of a power quantity P and a time quantity T, in any
\* power unit and any time unit, is an energy quantity whose value in MWh
\* is (P in MW) times (T in hours), and T * P equals P * T.
C26_PowerTimesTimeIsEnergy ==
    PowerAndTime =>
        /\ res.ok
        /\ res.dimension = "ENERGY"
        /\ ValueIn(res, "MWh") = VMul(ValueIn(PowerOperand, "MW"), ValueIn(TimeOperand, "h"))
        /\ Mul(op.other, a) = res

\* the same with the time operand given in hours
C26_PowerTimesHoursIsEnergy ==
    (PowerAndTime /\ TimeOperand.unit = "h") =>
        /\ res.ok
        /\ res.dimension = "ENERGY"
        /\ ValueIn(res, "MWh") = VMul(ValueIn(PowerOperand, "MW"), ValueIn(TimeOperand, "h"))
        /\ Mul(op.other, a) = res

\* kW times h is the energy in kWh
C26_WitnessHours ==
    /\ PowerAndTime
    /\ a.unit = "kW" /\ op.other.unit = "h"
    /\ res.ok /\ res.unit = "kWh"

\* MW times min: the minutes are multiplied in as if they were hours
C26_MinutesTakenAsHours ==
    /\ PowerAndTime
    /\ a.unit = "MW" /\ op.other.unit = "min"
    /\ res.ok /\ res.unit = "MWh"
    /\ res.value = VMul(a.value, op.other.value)

(***************************************************************************)
(* C27: a compound price converted in currency and in scale at once.       *)
(***************************************************************************)
\* to(target) between compound price units of one dimension
CompoundPriceCall ==
    /\ IsTo /\ UnitOnly(op)
    /\ HasSlash(a.unit) /\ HasSlash(op.target_unit[1])
    /\ get_dimension(op.target_unit[1]) = a.dimension

\* the target changes the currency and the other component
ChangesBoth ==
    /\ CompoundPriceCall
    /\ SplitNum(a.unit) # SplitNum(op.target_unit[1])
    /\ SplitDen(a.unit) # SplitDen(op.target_unit[1])

\* the unit with the target's currency and the receiver's other component
CurrencyChanged == SplitNum(op.target_unit[1]) \o "/" \o SplitDen(a.unit)

\* the unit with the receiver's currency and the target's other component
ComponentChanged == SplitNum(a.unit) \o "/" \o SplitDen(op.target_unit[1])

\* the exchange factor times the num_factor/den_factor scale
ExchangeAndScale ==
    RMul(exchange_get_conversion_factor(SplitNum(a.unit), SplitNum(op.target_unit[1]),
                                        a.reference_year),
         get_conversion_factor(a.unit, ComponentChanged))

\* the two to() calls, currency first and other component first
CurrencyThenComponent ==
    To(To(a, Some(CurrencyChanged), None, None, None), op.target_unit, None, None, None)

ComponentThenCurrency ==
    To(To(a, Some(ComponentChanged), None, None, None), op.target_unit, None, None, None)

\* C27: converting a compound price to a unit that changes both the currency
\* and the other component multiplies the value by the exchange factor and
\* by the scale of the other component, and equals the two separate
\* conversions in either order.
C27_ExchangeAndScale ==
    ChangesBoth =>
        /\ res.ok
        /\ res.value = VScale(a.value, ExchangeAndScale)
        /\ res = CurrencyThenComponent
        /\ res = ComponentThenCurrency

\* the two separate conversions agree with each other and with the product
\* of the two factors
C27_TwoStepsAgree ==
    ChangesBoth =>
        /\ CurrencyThenComponent.ok
        /\ CurrencyThenComponent = ComponentThenCurrency
        /\ CurrencyThenComponent.value = VScale(a.value, ExchangeAndScale)

\* EUR/MWh of 2020 to USD/GJ: the exchange factor alone is applied
C27_ScaleIgnored ==
    /\ ChangesBoth
    /\ a.unit = "EUR/MWh" /\ op.target_unit = Some("USD/GJ")
    /\ a.reference_year = Some(2020)
    /\ res.ok
    /\ res.value = VScale(a.value, exchange_get_conversion_factor("EUR", "USD", Some(2020)))
    /\ res.value # CurrencyThenComponent.value

(***************************************************************************)
(* C29: dimensionless operands.                                            *)
(***************************************************************************)
IsCompare == op.name = "compare"

\* a call on a dimensionless receiver with a dimensionless argument
BothDimensionless ==
    /\ a.unit = ""
    /\ \/ IsTo /\ UnitOnly(op) /\ op.target_unit = Some("")
       \/ (IsAdd \/ IsSub \/ IsCompare) /\ op.other.unit = ""

\* the result of the call on the values alone
OnValues ==
    IF IsTo THEN a.value
    ELSE IF IsAdd THEN VAdd(a.value, op.other.value)
    ELSE IF IsSub THEN VSub(a.value, op.other.value)
    ELSE Compared(a, op.other, op.rel).truth

\* C29: to(''), +, - and the six comparison operators between two
\* dimensionless quantities succeed and give the arithmetic or comparison
\* result on their values.
C29_DimensionlessOperands ==
    BothDimensionless =>
        /\ res.ok
        /\ (IF IsCompare THEN res.truth ELSE res.value) = OnValues

\* the quotient of two quantities in MWh is dimensionless
C29_RatiosAreDimensionless ==
    \A q \in Ratios : q.ok /\ q.unit = "" /\ q.dimension = "DIMENSIONLESS"

\* the sum of two ratios raises
C29_SumOfRatiosRaises ==
    /\ BothDimensionless /\ IsAdd
    /\ a.value = Scalar(Frac(2, 1)) /\ op.other.value = Scalar(Frac(1, 2))
    /\ ~res.ok

(***************************************************************************)
(* C30: sums, differences and comparisons across dimensions.               *)
(***************************************************************************)
\* self + other, self - other or a comparison of self with other
BinaryCall == IsAdd \/ IsSub \/ IsCompare

SameDimension == a.dimension = op.other.dimension

\* the dimensions between which to() converts: energy and power at one
\* hour, and energy, mass and volume through the heating value and the
\* density of the substance of the operand that is converted
ConvertibleDimensions ==
    \/ {a.dimension, op.other.dimension} = {"ENERGY", "POWER"}
    \/ /\ op.other.substance # None
       /\ {a.dimension, op.other.dimension} \subseteq {"ENERGY", "MASS", "VOLUME"}

\* C30: +, - and the comparison operators produce a result only when both
\* operands have the same dimension; operands of different dimensions
\* raise, with or without a substance on the operands.
C30_SameDimensionOnly ==
    (BinaryCall /\ res.ok) => SameDimension

\* C30 as the code has it: +, - and the comparison operators produce a
\* result only when both operands have the same dimension or the right
\* operand converts into the left operand's dimension (energy and power;
\* energy, mass and volume when the right operand carries a substance);
\* every other pair of dimensions raises.
C30_ConvertibleOnly ==
    (BinaryCall /\ res.ok) => (SameDimension \/ ConvertibleDimensions)

\* energy plus a mass of lignite is a sum in MWh
C30_Witness ==
    /\ IsAdd
    /\ a.unit = "MWh" /\ a.substance = None
    /\ op.other.unit = "t" /\ op.other.substance = Some("lignite")
    /\ res.ok /\ res.unit = "MWh"

\* energy compared with power yields a truth value
C30_WitnessPower ==
    /\ IsCompare
    /\ a.unit = "MWh" /\ op.other.unit = "MW" /\ op.other.substance = None
    /\ res.ok

\* energy plus mass without substance, and mass compared with power, raise
C30_WitnessRaises ==
    /\ BinaryCall /\ ~res.ok
    /\ \/ a.unit = "MWh" /\ op.other.unit = "t" /\ op.other.substance = None
       \/ a.unit = "t" /\ op.other.unit = "MW"

(***************************************************************************)
(* C28: the consistency of the registry under the extension API.           *)
(***************************************************************************)
IsValidate == op.name = "validate_registry"

\* C28: after any sequence of add_unit, add_unit_with_reference,
\* remove_unit and add_corresponding_unit (on registered units), starting
\* from the default registry, validate_registry reports no missing
\* conversion factor, no orphaned correspondence and no missing base unit.
C28_RegistryConsistent ==
    IsValidate =>
        /\ res.issues.missing_conversion_factors = {}
        /\ res.issues.orphaned_correspondences = {}
        /\ res.issues.missing_base_units = {}

\* the two issues that the API does keep away
C28_FactorsAndCorrespondencesConsistent ==
    IsValidate =>
        /\ res.issues.missing_conversion_factors = {}
        /\ res.issues.orphaned_correspondences = {}

\* validation with a new unit registered and put in correspondence
C28_WitnessConsistent ==
    /\ IsValidate
    /\ Has(catalog, "dimensions", "MJ")
    /\ Get(catalog, "corresponding_units", "MW") = "MJ"
    /\ res.issues.missing_base_units = {}

\* MWh, re-registered as a power unit and removed, is still the energy base
C28_BaseUnitMissing ==
    /\ IsValidate
    /\ ~Has(catalog, "dimensions", "MWh")
    /\ res.issues.missing_base_units = {<<"ENERGY", "MWh">>}

(***************************************************************************)
(* C21: the catalogs under the core operations.                            *)
(***************************************************************************)
\* the add, update and remove methods of the registries
ExplicitCalls ==
    {"add_unit", "add_unit_with_reference", "remove_unit", "add_corresponding_unit",
     "add_dimension_conversion", "remove_substance"}

\* C21: construction, to, +, -, *, /, the comparison operators and the
\* lookups of the registries leave every catalog table unchanged, whether
\* they succeed or fail; only the explicit add and remove operations change
\* a table.
C21_CoreCallsKeepCatalog ==
    [][(op'.name \notin ExplicitCalls) => (catalog' = catalog)]_vars

\* a failed comparison after an explicit change: the change is still there
C21_Witness ==
    /\ IsCompare /\ ~res.ok
    /\ Has(catalog, "dimensions", "MJ")
    /\ ~Has(catalog, "substances", "hydro")
    /\ Keys(catalog, "custom_conversions") = CustomPairs

\* the explicit operations do change the tables
C21_WitnessExplicit ==
    /\ op.name = "remove_substance" /\ res.ok
    /\ catalog # DefaultCatalog

(***************************************************************************)
(* C23: custom conversions between dimensions.                             *)
(***************************************************************************)
\* the dimensions a to(target_unit) call converts between
CallDimensions == <<a.dimension, get_dimension(op.target_unit[1])>>

\* to(target_unit) between dimensions that have a custom conversion
CustomConversionCall ==
    /\ IsTo /\ UnitOnly(op)
    /\ Has(catalog, "custom_conversions", CallDimensions)

\* C23: after add_dimension_conversion(from_dim, to_dim, f) the dimensions
\* are compatible and a conversion between units of from_dim and to_dim
\* uses f, also where a built-in conversion exists for the pair.
C23_CustomConversionUsed ==
    CustomConversionCall =>
        /\ are_dimensions_compatible(CallDimensions[1], CallDimensions[2])
        /\ res.ok
        /\ res.value = VScale(a.value, Get(catalog, "custom_conversions", CallDimensions))

\* add_dimension_conversion stores the function under the pair
C23_CustomConversionStored ==
    op.name = "add_dimension_conversion" =>
        /\ Has(catalog, "custom_conversions", <<op.args[1], op.args[2]>>)
        /\ Get(catalog, "custom_conversions", <<op.args[1], op.args[2]>>) = op.args[3]

\* a mass to hours with a MASS to TIME conversion registered: the call raises
C23_CustomPairRaises ==
    /\ CustomConversionCall
    /\ a.unit = "t" /\ op.target_unit = Some("h")
    /\ ~are_dimensions_compatible("MASS", "TIME")
    /\ ~res.ok

\* MWh to MW with an ENERGY to POWER conversion registered: the built-in
\* conversion at one hour is used
C23_BuiltInKept ==
    /\ CustomConversionCall
    /\ a.unit = "MWh" /\ op.target_unit = Some("MW")
    /\ res.ok /\ res.value = a.value
====
